---- MODULE Spec2Model ----
(***************************************************************************)
(* Model of the workflow runner (src/runner.py): the topological sorter    *)
(* _topo_order and the driver loop of main() with its per-node retry and   *)
(* cooperative-timeout state machine, the output context and the metrics   *)
(* journal.                                                                *)
(***************************************************************************)
EXTENDS Integers, Sequences, FiniteSets, TLC

(***************************************************************************)
(* Bounds of the explored inputs.                                          *)
(***************************************************************************)
MaxNodes == 3
MaxEdges == 3
MaxAttempts == 2
MaxBackoff == 1
MaxTimeout == 1
MaxElapsedHalfMs == 4

\* Node ids that may occur in an IR (as a node's id or inside dependsOn).
Ids == {"a", "b", "c"}

\* A fixed enumeration of Ids, used only to list dependsOn without
\* permutations: _topo_order uses dependsOn through len() and "in" only.
IdRank == [i \in Ids |-> CASE i = "a" -> 1 [] i = "b" -> 2 [] OTHER -> 3]

\* retry.maxAttempts, retry.backoffMs and timeoutMs as main() reads them
\* (lines 297-300).
Policies == [max_attempts : 0..MaxAttempts,
             backoff_ms : (-1)..MaxBackoff,
             timeout_ms : 0..MaxTimeout]

\* What main() reads for a node without retry and timeoutMs.
DefaultPolicy == [max_attempts |-> 1, backoff_ms |-> 0, timeout_ms |-> 0]

\* A node of the IR: its id, its dependsOn and its policy fields.
Node(nid, deps, p) ==
  [id |-> nid, dependsOn |-> deps, maxAttempts |-> p.max_attempts,
   backoffMs |-> p.backoff_ms, timeoutMs |-> p.timeout_ms]

\* The dependsOn entries of a list of k nodes, m in all, as (position of the
\* node, id) pairs listed in one fixed order.
EdgeLe(x, y) == x[1] < y[1] \/ (x[1] = y[1] /\ IdRank[x[2]] <= IdRank[y[2]])

EdgeLists(k, m) ==
  {el \in [1..m -> (1..k) \X Ids] : \A j \in 1..(m - 1) : EdgeLe(el[j], el[j + 1])}

\* The dependsOn list of the i-th node.
DepsAt(el, i) ==
  LET sel == SelectSeq(el, LAMBDA e : e[1] = i)
  IN [j \in 1..Len(sel) |-> sel[j][2]]

\* The workflow of k nodes without retry and timeoutMs that has the ids ids
\* (not necessarily distinct) and the dependsOn entries el.
GraphWorkflow(k, ids, el) ==
  [i \in 1..k |-> Node(ids[i], DepsAt(el, i), DefaultPolicy)]

\* Workflows that vary the policies: one node with any policy, or two nodes,
\* one of them with any policy, of which the second may depend on the first.
PolicyWorkflows ==
  {<<Node("a", <<>>, p)>> : p \in Policies}
    \cup {<<Node("a", <<>>, p), Node("b", deps, DefaultPolicy)>> :
            p \in Policies, deps \in {<<>>, <<"a">>}}
    \cup {<<Node("a", <<>>, DefaultPolicy), Node("b", deps, q)>> :
            q \in Policies, deps \in {<<>>, <<"a">>}}

\* Workflows run under every combination of --mode, AUTOMATOR_MODE, --mock-io
\* and AUTOMATOR_MOCK_IO: one node, or two nodes of which the second may
\* depend on the first, without retry and timeoutMs.
ModeWorkflows ==
  {<<Node("a", <<>>, DefaultPolicy)>>}
    \cup {<<Node("a", <<>>, DefaultPolicy), Node("b", deps, DefaultPolicy)>> :
            deps \in {<<>>, <<"a">>}}

Range(s) == {s[j] : j \in 1..Len(s)}

(***************************************************************************)
(* _topo_order                                                             *)
(***************************************************************************)
\* Variant: the keys come in the reverse order of their last occurrence.
RECURSIVE IndegKeys_LastFirst(_)
IndegKeys_LastFirst(ns) ==
  IF ns = <<>> THEN <<>>
  ELSE LET rest == IndegKeys_LastFirst(Tail(ns))
           nid == Head(ns).id
       IN IF nid \in Range(rest) THEN rest ELSE Append(rest, nid)

\* Keys of the indeg dict in insertion order: node ids by first occurrence.
RECURSIVE IndegKeys(_)
IndegKeys(ns) ==
  IF ns = <<>> THEN <<>>
  ELSE LET rest == IndegKeys(SubSeq(ns, 1, Len(ns) - 1))
           nid == ns[Len(ns)].id
       IN IF nid \in Range(rest) THEN rest ELSE Append(rest, nid)

\* Sum of len(dependsOn) over the nodes ns[1..k] whose id is nid.
RECURSIVE DepCount(_, _, _)
DepCount(ns, nid, k) ==
  IF k = 0 THEN 0
  ELSE DepCount(ns, nid, k - 1)
       + (IF ns[k].id = nid THEN Len(ns[k].dependsOn) ELSE 0)

\* Variant: one count per node that has dependencies instead of one per entry.
InitIndeg_PerNode(ns) ==
  [nid \in Range(IndegKeys(ns)) |->
     Cardinality({k \in 1..Len(ns) : ns[k].id = nid /\ ns[k].dependsOn # <<>>})]

\* Variant: only the dependsOn entries that name the id of a node are counted.
InitIndeg_ExistingOnly(ns) ==
  [nid \in Range(IndegKeys(ns)) |->
     Cardinality({e \in (1..Len(ns)) \X (1..MaxEdges) :
                    /\ ns[e[1]].id = nid
                    /\ e[2] <= Len(ns[e[1]].dependsOn)
                    /\ ns[e[1]].dependsOn[e[2]] \in {ns[i].id : i \in 1..Len(ns)}})]

\* indeg after the two initial loops.
InitIndeg(ns) == [nid \in Range(IndegKeys(ns)) |-> DepCount(ns, nid, Len(ns))]

\* Whether the node n has its indeg decremented when cur is emitted.
DependsOnCur(n, cur) == cur \in Range(n.dependsOn)

\* The inner "for n in nodes" loop for one emitted id, from node k on.
RECURSIVE Relax(_, _, _, _, _)
Relax(ns, k, cur, indeg, q) ==
  IF k > Len(ns) THEN [indeg |-> indeg, q |-> q]
  ELSE IF DependsOnCur(ns[k], cur)
       THEN LET nid == ns[k].id
                indeg2 == [indeg EXCEPT ![nid] = @ - 1]
            IN Relax(ns, k + 1, cur, indeg2,
                     IF indeg2[nid] = 0 THEN Append(q, nid) ELSE q)
       ELSE Relax(ns, k + 1, cur, indeg, q)

\* The next id taken from the work queue.
PopQueue(q) == Head(q)

\* The "while q" loop.
RECURSIVE TopoLoop(_, _, _, _)
TopoLoop(ns, indeg, q, order) ==
  IF q = <<>> THEN [order |-> order, indeg |-> indeg]
  ELSE LET cur == PopQueue(q)
           r == Relax(ns, 1, cur, indeg, Tail(q))
       IN TopoLoop(ns, r.indeg, r.q, Append(order, cur))

\* Variant: only ids left with an indeg above one are reported.
CycleIds_AboveOne(keys, indeg) == SelectSeq(keys, LAMBDA nid : indeg[nid] > 1)

\* The ids reported as cycles: those left with a positive indeg.
CycleIds(keys, indeg) == SelectSeq(keys, LAMBDA nid : indeg[nid] > 0)

_topo_order(ns) ==
  LET keys == IndegKeys(ns)
      indeg == InitIndeg(ns)
      q == SelectSeq(keys, LAMBDA nid : indeg[nid] = 0)
      r == TopoLoop(ns, indeg, q, <<>>)
  IN [order |-> r.order, cycles |-> CycleIds(keys, r.indeg)]

\* id_to_node = {n["id"]: n for n in nodes}: the last node of an id wins.
id_to_node(ns) ==
  [nid \in {ns[k].id : k \in 1..Len(ns)} |->
     ns[CHOOSE k \in 1..Len(ns) :
          ns[k].id = nid /\ \A j \in (k + 1)..Len(ns) : ns[j].id # nid]]

(***************************************************************************)
(* Inputs read while the driver runs                                       *)
(***************************************************************************)
\* Shapes of the parsed IR that main() tells apart (lines 220-226).
IrShapes == {"process", "not_mapping", "bad_kind", "nodes_not_list"}

\* The --mode option (absent when not given) and the AUTOMATOR_MODE variable
\* (unset when not in the environment).
Modes == {"explore", "verify", "prod"}
ArgsModes == Modes \cup {"absent"}
EnvModes == Modes \cup {"unset"}

\* What the driver looks at in a node's action (lines 260-280): whether
\* actionRef is a string and, if so, whether _mock_handler knows it; whether
\* (actionRef, schemaVersion) has a registered handler; whether that pair is
\* in the quarantine list.
Actions == [ref : {"not_str", "mocked", "unmocked"},
            registered : BOOLEAN, quarantined : BOOLEAN]

\* Outcome of the per-node handler lookup (lines 260-280): the actionRef type
\* check, the registry / mock lookup and the quarantine check.
Lookups == {"handler", "invalid_action_ref", "not_implemented", "quarantined"}

\* The handler a lookup selects.
Handlers == {"none", "real", "mock"}

\* A node's input as the resolver sees it: no $ref, a $ref into the output of
\* node nid whose field path exists or not, a $ref with a malformed path, or
\* a string leaf that contains both "{{" and "}}".
Inputs == {[kind |-> "plain"], [kind |-> "bad_path"], [kind |-> "template"]}
            \cup [kind : {"ref"}, nid : Ids, found : BOOLEAN]

\* Values a handler may return: mappings and a value that is not a mapping.
Mappings == {"m1", "m2"}
NonMappings == {"scalar"}

\* What one handler invocation does: return a value after some wall-clock
\* time, measured in half milliseconds, or raise.
Outcomes == [kind : {"return"}, value : Mappings \cup NonMappings,
             half_ms : 0..MaxElapsedHalfMs]
              \cup [kind : {"raise"},
                    exc : {"RetryableError", "PermanentError", "Exception"}]

\* elapsed_ms = int((time.time() - start) * 1000): whole milliseconds.
HalfMsPerMs == 2
elapsed_ms(o) == o.half_ms \div HalfMsPerMs

isinstance_dict(v) == v \in Mappings

VARIABLES
  ir_shape,          \* shape of the parsed IR
  nodes,             \* ir["nodes"]
  dry_run,           \* args.dry_run
  args_mode,         \* --mode as given on the command line, or "absent"
  env_mode,          \* AUTOMATOR_MODE in the environment, or "unset"
  args_mock_io,      \* --mock-io given
  env_mock_io,       \* AUTOMATOR_MOCK_IO is '1'
  write_errors,      \* appending to metrics.jsonl can raise (unwritable, full disk)
  pc,                \* "start", "node", "invoke", "sleep", "exit"
  order,             \* order returned by _topo_order
  cycles,            \* cycles returned by _topo_order
  idx,               \* position of the for loop in order
  context_outputs,   \* node id -> output
  attempt,           \* attempt counter of the current node
  policy,            \* max_attempts, backoff_ms, timeout_ms of the current node
  handler,           \* handler selected for the current node
  metrics,           \* records appended to metrics.jsonl by this run
  stdout,            \* lines printed
  exit_code,         \* -1 while running, else the process exit code
  invoked,           \* ids of the nodes whose handler has been invoked
  resolved,          \* ids of the nodes whose input resolution was started
  outcomes,          \* what each invocation of the current node's handler did
  sleeps,            \* backoff sleeps (ms) taken for the current node
  accepted,          \* node id -> mapping its handler returned within the timeout
  node_input,        \* node.get("input", {}) of the node whose input is resolved
  ref_parts,         \* the parts its $ref path was joined from, <<>> without one
  resolved_input,    \* what _resolve_input returned for it
  writes             \* records the run tried to append to metrics.jsonl

\* No value: the place holds nothing yet.
NoValue == [t |-> "none"]

\* The command line and the environment, which the run never changes.
config ==
  <<dry_run, args_mode, env_mode, args_mock_io, env_mock_io, write_errors>>

\* The values the resolver works on, which only the resolver's
\* specification follows (SpecResolve).
resolver == <<node_input, ref_parts, resolved_input>>

vars == <<ir_shape, nodes, config, resolver, writes, pc, order, cycles, idx, context_outputs,
          attempt, policy, handler, metrics, stdout, exit_code, invoked,
          resolved, outcomes, sleeps, accepted>>

\* args.mode: --mode, whose default is AUTOMATOR_MODE, else explore (line 214).
mode ==
  IF args_mode # "absent" THEN args_mode
  ELSE IF env_mode # "unset" THEN env_mode
  ELSE "explore"

\* os.environ.get("AUTOMATOR_MODE", "explore") (line 113).
environ_mode == IF env_mode # "unset" THEN env_mode ELSE "explore"

\* Variant: AUTOMATOR_MOCK_IO turns mock-IO on in every mode.
mock_io_EnvAnyMode == args_mock_io \/ env_mock_io

\* Line 235.
mock_io == args_mock_io \/ (mode = "verify" /\ env_mock_io)

NoPolicy == [max_attempts |-> 0, backoff_ms |-> 0, timeout_ms |-> 0]

InitRun ==
  /\ pc = "start"
  /\ order = <<>>
  /\ cycles = <<>>
  /\ idx = 0
  /\ context_outputs = <<>>
  /\ attempt = 0
  /\ policy = NoPolicy
  /\ handler = "none"
  /\ metrics = <<>>
  /\ writes = <<>>
  /\ stdout = <<>>
  /\ exit_code = -1
  /\ invoked = {}
  /\ resolved = {}
  /\ outcomes = <<>>
  /\ sleeps = <<>>
  /\ accepted = <<>>

\* Nothing is being resolved (the resolver is followed in SpecResolve).
NoResolver ==
  /\ node_input = NoValue
  /\ ref_parts = <<>>
  /\ resolved_input = NoValue

\* A run without --mode and --mock-io, with neither variable in the
\* environment.
PlainConfig ==
  /\ args_mode = "absent"
  /\ env_mode = "unset"
  /\ args_mock_io = FALSE
  /\ env_mock_io = FALSE

Init ==
  /\ \/ /\ ir_shape = "process"
        /\ \E k \in 1..MaxNodes, m \in 0..MaxEdges :
             \E el \in EdgeLists(k, m), ids \in [1..k -> Ids] :
               nodes = GraphWorkflow(k, ids, el)
        /\ PlainConfig
     \/ /\ ir_shape = "process"
        /\ nodes \in PolicyWorkflows \cup {<<>>}
        /\ PlainConfig
     \/ /\ ir_shape = "process"
        /\ nodes \in ModeWorkflows
        /\ args_mode \in ArgsModes
        /\ env_mode \in EnvModes
        /\ args_mock_io \in BOOLEAN
        /\ env_mock_io \in BOOLEAN
     \/ /\ ir_shape \in IrShapes \ {"process"}
        /\ nodes = <<>>
        /\ PlainConfig
  /\ dry_run \in BOOLEAN
  /\ InitRun
  /\ write_errors = FALSE
  /\ NoResolver

\* raise SystemExit(code) after printing line.
Exit(code, line) ==
  /\ pc' = "exit"
  /\ exit_code' = code
  /\ stdout' = Append(stdout, line)

(***************************************************************************)
(* main(), lines 218-233: shape checks and the topological sort            *)
(***************************************************************************)
\* Variant: an empty node list is not rejected.
Start_NoNodesCheck ==
  /\ pc = "start"
  /\ IF ir_shape \in {"not_mapping", "bad_kind"}
     THEN /\ Exit(2, <<"NODE_FAILED", "invalid IR">>)
          /\ UNCHANGED <<order, cycles, idx>>
     ELSE IF ir_shape = "nodes_not_list"
     THEN /\ Exit(2, <<"NODE_FAILED", "no nodes">>)
          /\ UNCHANGED <<order, cycles, idx>>
     ELSE LET t == _topo_order(nodes)
          IN /\ order' = t.order
             /\ cycles' = t.cycles
             /\ IF t.cycles # <<>>
                THEN Exit(3, <<"NODE_FAILED", "cycle detected">>) /\ UNCHANGED idx
                ELSE /\ pc' = "node"
                     /\ idx' = 1
                     /\ UNCHANGED <<exit_code, stdout>>
  /\ UNCHANGED <<ir_shape, nodes, config, resolver, context_outputs, attempt, policy,
                 handler, metrics, writes, invoked, resolved, outcomes, sleeps, accepted>>

Start ==
  /\ pc = "start"
  /\ IF ir_shape \in {"not_mapping", "bad_kind"}
     THEN /\ Exit(2, <<"NODE_FAILED", "invalid IR">>)
          /\ UNCHANGED <<order, cycles, idx>>
     ELSE IF ir_shape = "nodes_not_list" \/ nodes = <<>>
     THEN /\ Exit(2, <<"NODE_FAILED", "no nodes">>)
          /\ UNCHANGED <<order, cycles, idx>>
     ELSE LET t == _topo_order(nodes)
          IN /\ order' = t.order
             /\ cycles' = t.cycles
             /\ IF t.cycles # <<>>
                THEN Exit(3, <<"NODE_FAILED", "cycle detected">>) /\ UNCHANGED idx
                ELSE /\ pc' = "node"
                     /\ idx' = 1
                     /\ UNCHANGED <<exit_code, stdout>>
  /\ UNCHANGED <<ir_shape, nodes, config, resolver, context_outputs, attempt, policy,
                 handler, metrics, writes, invoked, resolved, outcomes, sleeps, accepted>>

(***************************************************************************)
(* main(), lines 258-302: one pass of the for loop up to the first attempt *)
(***************************************************************************)
\* _mock_handler(action_ref): the mock of a known actionRef, else None.
_mock_handler(ref) == IF ref = "mocked" THEN "mock" ELSE "none"

\* Variant: with mock-IO on, a registered handler is kept.
Lookup_RealWins(act) ==
  IF act.ref = "not_str"
  THEN [res |-> "invalid_action_ref", handler |-> handler]
  ELSE LET registry == IF act.registered THEN "real" ELSE "none"
           substituted == IF mock_io /\ registry = "none"
                          THEN _mock_handler(act.ref) ELSE registry
       IN IF substituted = "none"
          THEN [res |-> "not_implemented", handler |-> "none"]
          ELSE IF act.quarantined /\ mode \in {"verify", "prod"}
          THEN [res |-> "quarantined", handler |-> substituted]
          ELSE [res |-> "handler", handler |-> substituted]

\* Variant: the quarantine list is consulted before the handler is looked up.
Lookup_QuarantineFirst(act) ==
  IF act.ref = "not_str"
  THEN [res |-> "invalid_action_ref", handler |-> handler]
  ELSE LET registry == IF act.registered THEN "real" ELSE "none"
           substituted == IF mock_io /\ registry = "none"
                          THEN _mock_handler(act.ref) ELSE registry
           selected == IF mock_io /\ _mock_handler(act.ref) # "none"
                       THEN _mock_handler(act.ref) ELSE substituted
       IN IF act.quarantined /\ mode \in {"verify", "prod"}
          THEN [res |-> "quarantined", handler |-> selected]
          ELSE IF substituted = "none"
          THEN [res |-> "not_implemented", handler |-> "none"]
          ELSE [res |-> "handler", handler |-> selected]

\* Variant: the quarantine list is applied in mode verify only.
Lookup_QuarantineVerifyOnly(act) ==
  IF act.ref = "not_str"
  THEN [res |-> "invalid_action_ref", handler |-> handler]
  ELSE LET registry == IF act.registered THEN "real" ELSE "none"
           substituted == IF mock_io /\ registry = "none"
                          THEN _mock_handler(act.ref) ELSE registry
           selected == IF mock_io /\ _mock_handler(act.ref) # "none"
                       THEN _mock_handler(act.ref) ELSE substituted
       IN IF substituted = "none"
          THEN [res |-> "not_implemented", handler |-> "none"]
          ELSE IF act.quarantined /\ mode = "verify"
          THEN [res |-> "quarantined", handler |-> selected]
          ELSE [res |-> "handler", handler |-> selected]

\* Lines 262-280: the outcome of the lookup for an action and the handler
\* it leaves selected.
Lookup(act) ==
  IF act.ref = "not_str"
  THEN [res |-> "invalid_action_ref", handler |-> handler]
  ELSE LET registry == IF act.registered THEN "real" ELSE "none"
           substituted == IF mock_io /\ registry = "none"
                          THEN _mock_handler(act.ref) ELSE registry
           selected == IF mock_io /\ _mock_handler(act.ref) # "none"
                       THEN _mock_handler(act.ref) ELSE substituted
       IN IF substituted = "none"
          THEN [res |-> "not_implemented", handler |-> "none"]
          ELSE IF act.quarantined /\ mode \in {"verify", "prod"}
          THEN [res |-> "quarantined", handler |-> selected]
          ELSE [res |-> "handler", handler |-> selected]

\* _resolve_input on a node input: "ok" or the error class it raises.
resolve_input(inp, context) ==
  CASE inp.kind = "plain" -> "ok"
    [] inp.kind = "bad_path" -> "PermanentError"
    [] inp.kind = "template" ->
         IF environ_mode \in {"verify", "prod"} THEN "PermanentError" ELSE "ok"
    [] OTHER -> IF inp.nid \notin DOMAIN context THEN "RetryableError"
                ELSE IF inp.found THEN "ok" ELSE "PermanentError"

\* The text of the error _resolve_input raises.
resolve_error(inp, context) ==
  CASE inp.kind = "bad_path" -> "Unsupported $ref path"
    [] inp.kind = "template" -> "template literals not allowed"
    [] inp.kind = "ref" /\ inp.nid \notin DOMAIN context -> "$ref to unknown node"
    [] OTHER -> "$ref field not found"

\* Variant: the dry run leaves no placeholder in the context.
DryRun_NoPlaceholder(nid) ==
  /\ idx' = idx + 1
  /\ UNCHANGED <<pc, exit_code, stdout, attempt, policy, resolved, outcomes,
                 sleeps, context_outputs>>

\* Lines 282-285: with --dry-run, put the placeholder and continue.
DryRun(nid) ==
  /\ context_outputs' = (nid :> "dryRun") @@ context_outputs
  /\ idx' = idx + 1
  /\ UNCHANGED <<pc, exit_code, stdout, attempt, policy, resolved, outcomes,
                 sleeps>>

\* One pass of the loop body for a node whose action is act and whose input
\* is inp.
BeginNodeWith(act, inp) ==
  /\ pc = "node"
  /\ idx <= Len(order)
  /\ LET nid == order[idx]
         lk == Lookup(act)
     IN /\ handler' = lk.handler
        /\ CASE lk.res = "invalid_action_ref" ->
                  /\ Exit(3, <<"NODE_FAILED", nid, "invalid actionRef">>)
                  /\ UNCHANGED <<idx, context_outputs, attempt, policy,
                                 resolved, outcomes, sleeps>>
             [] lk.res = "not_implemented" ->
                  /\ Exit(3, <<"NODE_FAILED", nid, "action not implemented">>)
                  /\ UNCHANGED <<idx, context_outputs, attempt, policy,
                                 resolved, outcomes, sleeps>>
             [] lk.res = "quarantined" ->
                  /\ Exit(4, <<"NODE_FAILED", nid, "action quarantined">>)
                  /\ UNCHANGED <<idx, context_outputs, attempt, policy,
                                 resolved, outcomes, sleeps>>
             [] OTHER ->
                  IF dry_run
                  THEN DryRun(nid)
                  ELSE /\ resolved' = resolved \cup {nid}
                       /\ IF resolve_input(inp, context_outputs) # "ok"
                          THEN /\ Exit(4, <<"NODE_FAILED", nid,
                                            resolve_error(inp, context_outputs)>>)
                               /\ UNCHANGED <<idx, context_outputs, attempt,
                                              policy, outcomes, sleeps>>
                          ELSE LET node == id_to_node(nodes)[nid] IN
                                 /\ policy' = [max_attempts |-> node.maxAttempts,
                                               backoff_ms |-> node.backoffMs,
                                               timeout_ms |-> node.timeoutMs]
                                 /\ attempt' = 0
                                 /\ outcomes' = <<>>
                                 /\ sleeps' = <<>>
                                 /\ pc' = "invoke"
                                 /\ UNCHANGED <<idx, context_outputs, exit_code,
                                                stdout>>
  /\ UNCHANGED <<ir_shape, nodes, config, resolver, order, cycles, metrics, writes, invoked,
                 accepted>>

\* The loop body reads the node's input only at line 288.
ReadsInput(act) == Lookup(act).res = "handler" /\ ~dry_run

BeginNode ==
  \E act \in Actions :
    \E inp \in IF ReadsInput(act) THEN Inputs ELSE {[kind |-> "plain"]} :
      BeginNodeWith(act, inp)

(***************************************************************************)
(* main(), lines 303-357: one iteration of the attempt loop                *)
(***************************************************************************)
\* Variant: the returned value is not checked to be a mapping.
Classify_NoDictCheck(o, timeout_ms) ==
  IF o.kind = "raise" THEN [cls |-> o.exc, error |-> "raised"]
  ELSE IF timeout_ms > 0 /\ elapsed_ms(o) > timeout_ms
  THEN [cls |-> "RetryableError", error |-> "timeout exceeded"]
  ELSE [cls |-> "ok", error |-> ""]

\* Variant: the timeout applies also when timeout_ms is 0.
Classify_NoTimeoutGuard(o, timeout_ms) ==
  IF o.kind = "raise" THEN [cls |-> o.exc, error |-> "raised"]
  ELSE IF elapsed_ms(o) > timeout_ms
  THEN [cls |-> "RetryableError", error |-> "timeout exceeded"]
  ELSE IF ~isinstance_dict(o.value)
  THEN [cls |-> "PermanentError", error |-> "handler must return object"]
  ELSE [cls |-> "ok", error |-> ""]

\* The try body, lines 305-316: what the invocation amounts to.
Classify(o, timeout_ms) ==
  IF o.kind = "raise" THEN [cls |-> o.exc, error |-> "raised"]
  ELSE IF timeout_ms > 0 /\ elapsed_ms(o) > timeout_ms
  THEN [cls |-> "RetryableError", error |-> "timeout exceeded"]
  ELSE IF ~isinstance_dict(o.value)
  THEN [cls |-> "PermanentError", error |-> "handler must return object"]
  ELSE [cls |-> "ok", error |-> ""]

\* Variant: the output of the node is not put into the context.
NodeSucceeded_NoOutput(nid, out) ==
  [pc |-> "node", exit_code |-> exit_code, stdout |-> stdout,
   metrics |-> Append(metrics, [type |-> "node_result", node |-> nid,
                                ok |-> TRUE]),
   context_outputs |-> context_outputs,
   idx |-> idx + 1]

\* Variant: a success leaves no record in the journal.
NodeSucceeded_NoRecord(nid, out) ==
  [pc |-> "node", exit_code |-> exit_code, stdout |-> stdout,
   metrics |-> metrics,
   context_outputs |-> (nid :> out) @@ context_outputs,
   idx |-> idx + 1]

\* Variant: the output replaces the context instead of entering it.
NodeSucceeded_FreshContext(nid, out) ==
  [pc |-> "node", exit_code |-> exit_code, stdout |-> stdout,
   metrics |-> Append(metrics, [type |-> "node_result", node |-> nid,
                                ok |-> TRUE]),
   context_outputs |-> (nid :> out),
   idx |-> idx + 1]

\* Lines 317-323: record the output, append the ok record, leave the loop.
NodeSucceeded(nid, out) ==
  [pc |-> "node", exit_code |-> exit_code, stdout |-> stdout,
   metrics |-> Append(metrics, [type |-> "node_result", node |-> nid,
                                ok |-> TRUE]),
   context_outputs |-> (nid :> out) @@ context_outputs,
   idx |-> idx + 1]

\* Variant: after the failure record the driver goes on with the next node.
NodeFailed_Continue(nid, msg) ==
  [pc |-> "node", exit_code |-> exit_code,
   stdout |-> stdout \o << <<"NODE_FAILED", nid, msg>>, <<"traceback">> >>,
   metrics |-> Append(metrics, [type |-> "node_result", node |-> nid,
                                ok |-> FALSE, error |-> msg]),
   context_outputs |-> context_outputs,
   idx |-> idx + 1]

\* Lines 326-333, 337-344, 348-355: print, append the failure record, exit 4.
NodeFailed(nid, msg) ==
  [pc |-> "exit", exit_code |-> 4,
   stdout |-> stdout \o << <<"NODE_FAILED", nid, msg>>, <<"traceback">> >>,
   metrics |-> Append(metrics, [type |-> "node_result", node |-> nid,
                                ok |-> FALSE, error |-> msg]),
   context_outputs |-> context_outputs,
   idx |-> idx]

\* Variant: every failed attempt leaves a failure record.
Backoff_RecordAttempt ==
  [pc |-> "sleep", exit_code |-> exit_code, stdout |-> stdout,
   metrics |-> Append(metrics, [type |-> "node_result", node |-> order[idx],
                                ok |-> FALSE, error |-> "raised"]),
   context_outputs |-> context_outputs, idx |-> idx]

\* Lines 334-335, 356-357: go to sleep, then continue the loop.
Backoff ==
  [pc |-> "sleep", exit_code |-> exit_code, stdout |-> stdout,
   metrics |-> metrics, context_outputs |-> context_outputs, idx |-> idx]

\* Variant: the attempt bound is off by one.
except_RetryableError_OffByOne(nid, att, msg) ==
  IF att > policy.max_attempts THEN NodeFailed(nid, msg) ELSE Backoff

\* except RetryableError, lines 324-335.
except_RetryableError(nid, att, msg) ==
  IF att >= policy.max_attempts THEN NodeFailed(nid, msg) ELSE Backoff

\* Variant: after a permanent error the driver goes on with the next node.
except_PermanentError_NextNode(nid, att, msg) == NodeFailed_Continue(nid, msg)

\* Variant: a permanent error is retried like a retryable one.
except_PermanentError_Retry(nid, att, msg) ==
  IF att >= policy.max_attempts THEN NodeFailed(nid, msg) ELSE Backoff

\* except PermanentError, lines 336-344.
except_PermanentError(nid, att, msg) == NodeFailed(nid, msg)

\* Variant: an unclassified exception fails the node at once.
except_Exception_NoRetry(nid, att, msg) == NodeFailed(nid, msg)

\* except Exception, lines 345-357.
except_Exception(nid, att, msg) ==
  IF att >= policy.max_attempts THEN NodeFailed(nid, msg) ELSE Backoff

\* Whether an append to metrics.jsonl raises.
WriteFailures == IF write_errors THEN BOOLEAN ELSE {FALSE}

\* The ghost record of the appends tried, given the journal m that a step
\* without write errors leaves.
Tried(m) == IF Len(m) > Len(metrics) THEN Append(writes, m[Len(m)]) ELSE writes

\* Variant: the append is not guarded by try/except.  An error raised by the
\* append of the ok record is then caught by "except Exception" of the
\* attempt loop, after the output has entered the context.
AfterWrite_Unguarded(r, failed) ==
  IF failed /\ Len(r.metrics) > Len(metrics) /\ r.pc = "node"
  THEN [(IF attempt + 1 >= policy.max_attempts
         THEN [pc |-> "exit", exit_code |-> 4,
               stdout |-> stdout \o << <<"NODE_FAILED", order[idx], "write">>,
                                        <<"traceback">> >>,
               metrics |-> metrics, context_outputs |-> context_outputs,
               idx |-> idx]
         ELSE [pc |-> "sleep", exit_code |-> exit_code, stdout |-> stdout,
               metrics |-> metrics, context_outputs |-> context_outputs,
               idx |-> idx])
          EXCEPT !.context_outputs = r.context_outputs]
  ELSE IF failed THEN [r EXCEPT !.metrics = metrics] ELSE r

\* Lines 318-322, 328-332, 339-343, 350-354: "try: append; except
\* Exception: pass".  An append that raises leaves the journal as it was
\* and everything else as the step leaves it.
AfterWrite(r, failed) == IF failed THEN [r EXCEPT !.metrics = metrics] ELSE r

\* The state the iteration leaves when the handler does o.
InvokeResult(o) ==
  LET nid == order[idx]
      att == attempt + 1
      c == Classify(o, policy.timeout_ms)
  IN CASE c.cls = "ok" -> NodeSucceeded(nid, o.value)
       [] c.cls = "RetryableError" -> except_RetryableError(nid, att, c.error)
       [] c.cls = "PermanentError" -> except_PermanentError(nid, att, c.error)
       [] OTHER -> except_Exception(nid, att, c.error)

\* What an invocation did, as seen from outside the driver: the node, the
\* exception raised, or the value returned and whether the time it took is
\* above timeoutMs (exactly, and in whole milliseconds).
Observed(o) ==
  IF o.kind = "raise" THEN [node |-> order[idx], kind |-> "raise", exc |-> o.exc]
  ELSE [node |-> order[idx], kind |-> "return", value |-> o.value,
        over |-> o.half_ms > policy.timeout_ms * HalfMsPerMs,
        over_ms |-> elapsed_ms(o) > policy.timeout_ms]

Invoke ==
  /\ pc = "invoke"
  /\ \E o \in Outcomes, failed \in WriteFailures :
       LET r == AfterWrite(InvokeResult(o), failed)
           nid == order[idx]
           ob == Observed(o)
       IN /\ attempt' = attempt + 1
          /\ pc' = r.pc
          /\ exit_code' = r.exit_code
          /\ stdout' = r.stdout
          /\ metrics' = r.metrics
          /\ writes' = Tried(InvokeResult(o).metrics)
          /\ context_outputs' = r.context_outputs
          /\ idx' = r.idx
          /\ invoked' = invoked \cup {nid}
          /\ outcomes' = Append(outcomes, ob)
          /\ accepted' = IF /\ ob.kind = "return"
                            /\ ob.value \in Mappings
                            /\ ~(policy.timeout_ms > 0 /\ ob.over_ms)
                         THEN (nid :> ob.value) @@ accepted ELSE accepted
  /\ UNCHANGED <<ir_shape, nodes, config, resolver, order, cycles, policy, handler,
                 resolved, sleeps>>

Max(x, y) == IF x >= y THEN x ELSE y

\* Variant: the sleep takes backoffMs as it is.
Sleep_NoClamp ==
  /\ pc = "sleep"
  /\ sleeps' = Append(sleeps, policy.backoff_ms)
  /\ pc' = "invoke"
  /\ UNCHANGED <<ir_shape, nodes, config, resolver, order, cycles, idx,
                 context_outputs, attempt, policy, handler,
                 metrics, writes, stdout, exit_code, invoked, resolved,
                 outcomes, accepted>>

\* Variant: time.sleep never returns.
Sleep_Forever ==
  /\ pc = "sleep"
  /\ UNCHANGED vars

\* time.sleep(max(0, backoff_ms) / 1000.0); continue
Sleep ==
  /\ pc = "sleep"
  /\ sleeps' = Append(sleeps, Max(0, policy.backoff_ms))
  /\ pc' = "invoke"
  /\ UNCHANGED <<ir_shape, nodes, config, resolver, order, cycles, idx,
                 context_outputs, attempt, policy, handler,
                 metrics, writes, stdout, exit_code, invoked, resolved, outcomes,
                 accepted>>

(***************************************************************************)
(* main(), lines 359-364: the end of a run in which no node failed         *)
(***************************************************************************)
\* Variant: the run ends without the workflow_result record.
Finish_NoRecord ==
  /\ pc = "node"
  /\ idx > Len(order)
  /\ stdout' = Append(stdout, <<"OK">>)
  /\ exit_code' = 0
  /\ pc' = "exit"
  /\ UNCHANGED <<ir_shape, nodes, config, resolver, order, cycles, idx,
                 context_outputs, attempt, policy, handler,
                 metrics, writes, invoked, resolved, outcomes, sleeps, accepted>>

Finish ==
  /\ pc = "node"
  /\ idx > Len(order)
  /\ \E failed \in WriteFailures :
       metrics' = IF failed THEN metrics
                  ELSE Append(metrics, [type |-> "workflow_result", ok |-> TRUE])
  /\ writes' = Append(writes, [type |-> "workflow_result", ok |-> TRUE])
  /\ stdout' = Append(stdout, <<"OK">>)
  /\ exit_code' = 0
  /\ pc' = "exit"
  /\ UNCHANGED <<ir_shape, nodes, config, resolver, order, cycles, idx,
                 context_outputs, attempt, policy, handler,
                 invoked, resolved, outcomes, sleeps, accepted>>

Next == Start \/ BeginNode \/ Invoke \/ Sleep \/ Finish

Spec == Init /\ [][Next]_vars

\* main() is one sequential process: while a statement remains to be run it
\* is run, each handler invocation returns or raises, and time.sleep returns.
\* The id of the i-th node of a list that carries the ids in their fixed
\* enumeration (the last id again once they are used up).
IdAt(i) ==
  CHOOSE x \in Ids :
    IdRank[x] = IF i <= Cardinality(Ids) THEN i ELSE Cardinality(Ids)

\* Workflows of k nodes without retry and timeoutMs: independent nodes, a
\* chain in which each node depends on the one before it, and a ring (the
\* chain closed by a dependsOn entry of the first node on the last).
Independent(k) == [i \in 1..k |-> Node(IdAt(i), <<>>, DefaultPolicy)]

Chain(k) ==
  [i \in 1..k |->
     Node(IdAt(i), IF i = 1 THEN <<>> ELSE <<IdAt(i - 1)>>, DefaultPolicy)]

Ring(k) ==
  [i \in 1..k |->
     Node(IdAt(i), <<IdAt(IF i = 1 THEN k ELSE i - 1)>>, DefaultPolicy)]

\* The runs followed to their end: the IR shapes main() rejects, the
\* workflows that vary the policies, and the independent nodes, chains and
\* rings of up to MaxNodes nodes.
InitFair ==
  /\ \/ /\ ir_shape = "process"
        /\ \E k \in 1..MaxNodes : nodes \in {Independent(k), Chain(k), Ring(k)}
     \/ /\ ir_shape = "process"
        /\ nodes \in PolicyWorkflows \cup {<<>>}
     \/ /\ ir_shape \in IrShapes \ {"process"}
        /\ nodes = <<>>
  /\ PlainConfig
  /\ dry_run \in BOOLEAN
  /\ InitRun
  /\ write_errors = FALSE
  /\ NoResolver

SpecFair == InitFair /\ [][Next]_vars /\ WF_vars(Next)

(***************************************************************************)
(* Runs in which appending to metrics.jsonl can raise                      *)
(***************************************************************************)
InitWriteErrors ==
  /\ ir_shape = "process"
  /\ nodes \in PolicyWorkflows
  /\ PlainConfig
  /\ dry_run \in BOOLEAN
  /\ InitRun
  /\ write_errors = TRUE
  /\ NoResolver

SpecWriteErrors == InitWriteErrors /\ [][Next]_vars

(***************************************************************************)
(* _resolve_ref and _resolve_input on values                               *)
(*                                                                         *)
(* A str is the sequence of its characters.  A value is ("int", i),        *)
(* ("str", s), ("list", l) with l the sequence of its members, or          *)
(* ("map", kv) with kv the sequence of its (key, value) items in insertion *)
(* order, keys distinct.  The output context is a map of this kind.        *)
(***************************************************************************)
\* Largest number of tokens after "output" in the $ref paths drawn.
MaxTail == 2

IntV(i) == [t |-> "int", i |-> i]
StrV(s) == [t |-> "str", s |-> s]
ListV(l) == [t |-> "list", l |-> l]
MapV(kv) == [t |-> "map", kv |-> kv]

is_dict(v) == v.t = "map"
is_list(v) == v.t = "list"
is_str(v) == v.t = "str"

\* set(d.keys()), k in d and d[k] for a map.
Keys(d) == {d.kv[i][1] : i \in 1..Len(d.kv)}
Get(d, k) == d.kv[CHOOSE i \in 1..Len(d.kv) : d.kv[i][1] = k][2]

S_ref == <<"$", "r", "e", "f">>
S_dollar == <<"$">>
S_nodes == <<"n", "o", "d", "e", "s">>
S_output == <<"o", "u", "t", "p", "u", "t">>
S_a == <<"a">>
S_b == <<"b">>
S_x == <<"x">>
S_y == <<"y">>
S_l == <<"l">>

\* Position of the first occurrence of the character c in s, 0 without one.
Find(s, c) ==
  IF \E i \in 1..Len(s) : s[i] = c
  THEN CHOOSE i \in 1..Len(s) : s[i] = c /\ \A j \in 1..(i - 1) : s[j] # c
  ELSE 0

\* s.split(c)
RECURSIVE split(_, _)
split(s, c) ==
  LET i == Find(s, c)
  IN IF i = 0 THEN <<s>>
     ELSE <<SubSeq(s, 1, i - 1)>> \o split(SubSeq(s, i + 1, Len(s)), c)

\* s.split(c, 1) for s that contains c.
split_once(s, c) ==
  LET i == Find(s, c) IN <<SubSeq(s, 1, i - 1), SubSeq(s, i + 1, Len(s))>>

\* sub in s
Contains(s, sub) ==
  \E i \in 1..(Len(s) - Len(sub) + 1) : SubSeq(s, i, i + Len(sub) - 1) = sub

Digits == <<"0", "1", "2", "3", "4", "5", "6", "7", "8", "9">>

DigitVal(c) == (CHOOSE d \in 1..10 : Digits[d] = c) - 1

RECURSIVE Decimal(_)
Decimal(ds) ==
  IF ds = <<>> THEN 0
  ELSE 10 * Decimal(SubSeq(ds, 1, Len(ds) - 1)) + DigitVal(ds[Len(ds)])

\* int(s) for s made of signs, digits and letters: an optional sign followed
\* by one or more digits, anything else raising ValueError.
int(s) ==
  LET signed == s # <<>> /\ s[1] \in {"-", "+"}
      ds == IF signed THEN Tail(s) ELSE s
  IN IF ds = <<>> \/ \E i \in 1..Len(ds) : ds[i] \notin Range(Digits)
     THEN [ok |-> FALSE]
     ELSE [ok |-> TRUE,
           val |-> IF signed /\ s[1] = "-" THEN 0 - Decimal(ds) ELSE Decimal(ds)]

\* What a call does: it returns a value or raises an error with a text.
Return(v) == [raised |-> "none", val |-> v]
Raise(kind, text) == [raised |-> kind, msg |-> text]

\* Variant: a negative index counts from the end of the list, as val[idx]
\* alone would.
ForToken_NegativeIndex(val, token) ==
  IF "[" \in Range(token) /\ token[Len(token)] = "]"
  THEN LET hs == split_once(token, "[")
           head == hs[1]
           idx_str == SubSeq(hs[2], 1, Len(hs[2]) - 1)
           val2 == IF head # <<>> THEN Get(val, head) ELSE val
           index == int(idx_str)
       IN IF head # <<>> /\ ~(is_dict(val) /\ head \in Keys(val))
          THEN Raise("PermanentError", "$ref field not found")
          ELSE IF ~index.ok
          THEN Raise("PermanentError", "$ref invalid index")
          ELSE IF ~(is_list(val2) /\ 0 - Len(val2.l) <= index.val
                      /\ index.val < Len(val2.l))
          THEN Raise("PermanentError", "$ref index out of range")
          ELSE Return(val2.l[IF index.val < 0 THEN Len(val2.l) + index.val + 1
                             ELSE index.val + 1])
  ELSE IF is_dict(val) /\ token \in Keys(val)
       THEN Return(Get(val, token))
       ELSE Raise("PermanentError", "$ref field not found")

\* The body of "for token in parts[4:]" for one token.
ForToken(val, token) ==
  IF "[" \in Range(token) /\ token[Len(token)] = "]"
  THEN LET hs == split_once(token, "[")
           head == hs[1]
           idx_str == SubSeq(hs[2], 1, Len(hs[2]) - 1)
           val2 == IF head # <<>> THEN Get(val, head) ELSE val
           index == int(idx_str)
       IN IF head # <<>> /\ ~(is_dict(val) /\ head \in Keys(val))
          THEN Raise("PermanentError", "$ref field not found")
          ELSE IF ~index.ok
          THEN Raise("PermanentError", "$ref invalid index")
          ELSE IF ~(is_list(val2) /\ 0 <= index.val /\ index.val < Len(val2.l))
          THEN Raise("PermanentError", "$ref index out of range")
          ELSE Return(val2.l[index.val + 1])
  ELSE IF is_dict(val) /\ token \in Keys(val)
       THEN Return(Get(val, token))
       ELSE Raise("PermanentError", "$ref field not found")

\* The loop over parts[4:], from the k-th part on.
RECURSIVE ForTokens(_, _, _)
ForTokens(val, parts, k) ==
  IF k > Len(parts) THEN Return(val)
  ELSE LET r == ForToken(val, parts[k])
       IN IF r.raised # "none" THEN r ELSE ForTokens(r.val, parts, k + 1)

_resolve_ref(path, context) ==
  LET parts == split(path, ".")
  IN IF Len(parts) < 5 \/ parts[1] # S_dollar \/ parts[2] # S_nodes
          \/ parts[4] # S_output
     THEN Raise("PermanentError", "Unsupported $ref path")
     ELSE IF parts[3] \notin Keys(context)
     THEN Raise("RetryableError", "$ref to unknown node")
     ELSE ForTokens(Get(context, parts[3]), parts, 5)

\* "{{" in obj and "}}" in obj
IsTemplate(s) == Contains(s, <<"{", "{">>) /\ Contains(s, <<"}", "}">>)

\* Variant: a mapping that has the key $ref is substituted whatever its
\* other keys.
IsRef_AnyKeys(obj) ==
  S_ref \in Keys(obj) /\ is_str(Get(obj, S_ref))

\* set(obj.keys()) == {"$ref"} and isinstance(obj["$ref"], str)
IsRef(obj) ==
  Keys(obj) = {S_ref} /\ is_str(Get(obj, S_ref))

RECURSIVE _resolve_input(_, _)
RECURSIVE resolve_members(_, _)
\* The comprehensions of _resolve_input: the members in order, up to the
\* first that raises.
resolve_members(vs, context) ==
  IF vs = <<>> THEN Return(<<>>)
  ELSE LET r == _resolve_input(Head(vs), context)
       IN IF r.raised # "none" THEN r
          ELSE LET rest == resolve_members(Tail(vs), context)
               IN IF rest.raised # "none" THEN rest
                  ELSE Return(<<r.val>> \o rest.val)

_resolve_input(obj, context) ==
  IF is_dict(obj)
  THEN IF IsRef(obj)
       THEN _resolve_ref(Get(obj, S_ref).s, context)
       ELSE LET r == resolve_members([i \in 1..Len(obj.kv) |-> obj.kv[i][2]],
                                     context)
            IN IF r.raised # "none" THEN r
               ELSE Return(MapV([i \in 1..Len(obj.kv) |->
                                   <<obj.kv[i][1], r.val[i]>>]))
  ELSE IF is_list(obj)
  THEN LET r == resolve_members(obj.l, context)
       IN IF r.raised # "none" THEN r ELSE Return(ListV(r.val))
  ELSE IF is_str(obj) /\ environ_mode \in {"verify", "prod"} /\ IsTemplate(obj.s)
  THEN Raise("PermanentError", "template literals not allowed")
  ELSE Return(obj)

(***************************************************************************)
(* The inputs of the resolver: $ref paths, output contexts, input trees    *)
(***************************************************************************)
\* sep.join(parts)
RECURSIVE Join(_, _)
Join(parts, sep) ==
  IF parts = <<>> THEN <<>>
  ELSE IF Len(parts) = 1 THEN parts[1]
  ELSE parts[1] \o <<sep>> \o Join(Tail(parts), sep)

\* str(n) for a one-digit n of either sign.
IntStr(n) == IF n < 0 THEN <<"-", Digits[1 - n]>> ELSE <<Digits[n + 1]>>

\* The token head[n] of a path, "[n]" for an empty head.
IndexToken(head, n) == head \o <<"[">> \o IntStr(n) \o <<"]">>

\* The field names and the indexed tokens the paths are made of.
Names == {S_x, S_y, S_l}
Heads == {<<>>, S_x, S_l}
Indexes == {-1, 0, 1, 2}
IndexTokens == {IndexToken(<<>>, n) : n \in Indexes}
                 \cup {IndexToken(S_l, 1), IndexToken(S_l, 2), IndexToken(S_x, 0)}
TailTokens == Names \cup IndexTokens \cup {<<"[", "z", "]">>}

Tails == UNION {[1..n -> TailTokens] : n \in 1..MaxTail}

\* The parts of a path $.nodes.<nid>.output.<tail>
RefParts(nid, tail) == <<S_dollar, S_nodes, nid, S_output>> \o tail

\* Parts of paths that _resolve_ref rejects for their first four parts or
\* for their number.
BadPartLists ==
  {<<S_a>>,
   <<S_dollar, S_nodes, S_a, S_output>>,
   <<S_nodes, S_a, S_output, S_x, S_y>>,
   <<S_dollar, S_a, S_a, S_output, S_x>>,
   <<S_dollar, S_nodes, S_a, S_x, S_x>>,
   <<S_a, S_nodes, S_a, S_output, S_x>>}

PartLists ==
  {RefParts(nid, tail) : nid \in {S_a, S_b}, tail \in Tails} \cup BadPartLists

\* {"$ref": path}
Ref(path) == MapV(<< <<S_ref, StrV(path)>> >>)

\* {"$ref": path, "x": 1}: $ref is not the only key.
RefPlusKey(path) == MapV(<< <<S_ref, StrV(path)>>, <<S_x, IntV(1)>> >>)

\* {"x": {"$ref": path}, "y": "x"} and [1, {"$ref": path}]
InMap(path) == MapV(<< <<S_x, Ref(path)>>, <<S_y, StrV(S_x)>> >>)
InList(path) == ListV(<<IntV(1), Ref(path)>>)

\* The input trees made with one path.
RefTrees(path) == {Ref(path), RefPlusKey(path), InMap(path), InList(path)}

\* Outputs of the upstream node a.  The first has a scalar x, a mapping y
\* that is itself of the form {"$ref": ...}, and a list l of a scalar and a
\* mapping; the second has a list x and nothing else.
OutputA1 ==
  MapV(<< <<S_x, IntV(5)>>,
          <<S_y, Ref(Join(RefParts(S_a, <<S_x>>), "."))>>,
          <<S_l, ListV(<<IntV(7), MapV(<< <<S_x, IntV(8)>> >>)>>)>> >>)

OutputA2 == MapV(<< <<S_x, ListV(<<IntV(9)>>)>> >>)

\* The output contexts: none of the nodes has run, or a has.
Contexts ==
  {MapV(<<>>), MapV(<< <<S_a, OutputA1>> >>), MapV(<< <<S_a, OutputA2>> >>)}

\* Input trees without a path: scalars, a template literal, empty
\* containers, and {"$ref": 1}, whose $ref is not a string.
PlainTrees ==
  {IntV(1), StrV(S_x), StrV(<<"{", "{", "x", "}", "}">>), MapV(<<>>), ListV(<<>>),
   MapV(<< <<S_ref, IntV(1)>> >>)}

(***************************************************************************)
(* main(), lines 287-316, for one node whose input is resolved             *)
(***************************************************************************)
\* The id of the node whose input is resolved, and what its handler returns.
ThisNode == "c"
CurNodeOf(ns, nid) == id_to_node(ns)[nid]
HandlerOutput == MapV(<< <<S_x, IntV(0)>> >>)

InitResolve ==
  /\ ir_shape = "process"
  /\ nodes = <<Node(ThisNode, <<>>, DefaultPolicy)>>
  /\ dry_run = FALSE
  /\ args_mode = "absent"
  /\ env_mode \in EnvModes
  /\ args_mock_io = FALSE
  /\ env_mock_io = FALSE
  /\ write_errors = FALSE
  /\ writes = <<>>
  /\ \/ /\ node_input \in PlainTrees
        /\ ref_parts = <<>>
     \/ /\ ref_parts \in PartLists
        /\ node_input \in RefTrees(Join(ref_parts, "."))
  /\ resolved_input = NoValue
  /\ pc = "resolve"
  /\ order = <<ThisNode>>
  /\ cycles = <<>>
  /\ idx = 1
  /\ context_outputs \in Contexts
  /\ attempt = 0
  /\ policy = NoPolicy
  /\ handler = "real"
  /\ metrics = <<>>
  /\ stdout = <<>>
  /\ exit_code = -1
  /\ invoked = {}
  /\ resolved = {}
  /\ outcomes = <<>>
  /\ sleeps = <<>>
  /\ accepted = <<>>

\* Variant: a resolver error leaves the node without input and the loop
\* goes on to the handler.
ResolveNode_IgnoreError ==
  /\ pc = "resolve"
  /\ LET r == _resolve_input(node_input, context_outputs)
     IN /\ resolved' = resolved \cup {ThisNode}
        /\ resolved_input' = IF r.raised # "none" THEN MapV(<<>>) ELSE r.val
        /\ pc' = "invoke"
        /\ UNCHANGED <<exit_code, stdout>>
  /\ UNCHANGED <<ir_shape, nodes, config, node_input, ref_parts, order, cycles, idx,
                 context_outputs, attempt, policy, handler, metrics, writes, invoked,
                 outcomes, sleeps, accepted>>

\* Lines 287-294: resolve the input; on RetryableError or PermanentError
\* print NODE_FAILED and raise SystemExit(4).
ResolveNode ==
  /\ pc = "resolve"
  /\ LET r == _resolve_input(node_input, context_outputs)
     IN /\ resolved' = resolved \cup {ThisNode}
        /\ IF r.raised # "none"
           THEN /\ Exit(4, <<"NODE_FAILED", ThisNode, r.msg>>)
                /\ UNCHANGED resolved_input
           ELSE /\ resolved_input' = r.val
                /\ pc' = "invoke"
                /\ UNCHANGED <<exit_code, stdout>>
  /\ UNCHANGED <<ir_shape, nodes, config, node_input, ref_parts, order, cycles, idx,
                 context_outputs, attempt, policy, handler, metrics, writes, invoked,
                 outcomes, sleeps, accepted>>

\* Lines 296-323 for a handler that returns a mapping in time: the policy is
\* read, the handler is called with the resolved input, its output enters
\* the context and the ok record is appended.  (The other outcomes of the
\* attempt loop are followed in Spec.)
InvokeResolved ==
  /\ pc = "invoke"
  /\ policy' = [max_attempts |-> CurNodeOf(nodes, ThisNode).maxAttempts,
                backoff_ms |-> CurNodeOf(nodes, ThisNode).backoffMs,
                timeout_ms |-> CurNodeOf(nodes, ThisNode).timeoutMs]
  /\ attempt' = 1
  /\ invoked' = invoked \cup {ThisNode}
  /\ context_outputs' =
       MapV(Append(context_outputs.kv, <<<<ThisNode>>, HandlerOutput>>))
  /\ metrics' = Append(metrics, [type |-> "node_result", node |-> ThisNode,
                                 ok |-> TRUE])
  /\ writes' = Append(writes, [type |-> "node_result", node |-> ThisNode,
                               ok |-> TRUE])
  /\ idx' = idx + 1
  /\ pc' = "node"
  /\ UNCHANGED <<ir_shape, nodes, config, resolver, order, cycles, handler,
                 stdout, exit_code, resolved, outcomes, sleeps, accepted>>

NextResolve == ResolveNode \/ InvokeResolved

SpecResolve == InitResolve /\ [][NextResolve]_vars

(***************************************************************************)
(* Properties                                                              *)
(***************************************************************************)
Last(s) == s[Len(s)]

NodeIds(ns) == {ns[k].id : k \in 1..Len(ns)}

DistinctIds(ns) ==
  \A j, k \in 1..Len(ns) : j # k => ns[j].id # ns[k].id

\* Position of x in a sequence that contains it.
Pos(seq, x) == CHOOSE k \in 1..Len(seq) : seq[k] = x

\* The start action has run on an IR of the right shape with nodes.
Sorted == pc # "start" /\ ir_shape = "process" /\ nodes # <<>>

\* The node the driver is at.
CurNode == id_to_node(nodes)[order[idx]]

\* C1: for a node list with pairwise distinct ids for which _topo_order
\* reports no cycle ids, the order contains every node id exactly once and
\* every node id comes after each id of that node's dependsOn.
C1_TopoOrder ==
  (Sorted /\ DistinctIds(nodes) /\ cycles = <<>>) =>
    /\ \A nid \in NodeIds(nodes) :
         Cardinality({k \in 1..Len(order) : order[k] = nid}) = 1
    /\ Range(order) = NodeIds(nodes)
    /\ \A k \in 1..Len(nodes) : \A d \in Range(nodes[k].dependsOn) :
         /\ d \in Range(order)
         /\ Pos(order, d) < Pos(order, nodes[k].id)

C1_Witness ==
  /\ Sorted /\ DistinctIds(nodes) /\ cycles = <<>>
  /\ Len(order) = 3
  /\ \E k \in 1..Len(nodes) : Cardinality(Range(nodes[k].dependsOn)) = 2

\* C2: without --dry-run, whenever a node's handler is about to be invoked
\* (on any attempt) the output context has an entry for every id of the
\* node's dependsOn.
C2_DepsInContext ==
  (pc = "invoke" /\ ~dry_run) =>
    \A d \in Range(CurNode.dependsOn) : d \in DOMAIN context_outputs

C2_Witness ==
  /\ pc = "invoke" /\ ~dry_run
  /\ attempt >= 1
  /\ CurNode.dependsOn # <<>>
  /\ Range(CurNode.dependsOn) \subseteq DOMAIN context_outputs

\* C3: without --dry-run, the output context has an entry for a node only if
\* an invocation of its handler returned a mapping within the timeout; the
\* entry is that mapping, and the node being attempted or failed and the nodes
\* not yet reached have no entry.
C3_ContextOnlySuccess ==
  ~dry_run =>
    /\ \A nid \in DOMAIN context_outputs :
         /\ nid \in DOMAIN accepted
         /\ context_outputs[nid] = accepted[nid]
         /\ context_outputs[nid] \in Mappings
    /\ \A k \in 1..Len(order) :
         k >= idx => order[k] \notin DOMAIN context_outputs

C3_Witness ==
  /\ ~dry_run
  /\ pc = "exit" /\ exit_code = 4
  /\ outcomes # <<>> /\ Last(outcomes).node = order[idx]
  /\ Last(outcomes).kind = "return"
  /\ DOMAIN context_outputs # {}
  /\ idx < Len(order)

\* Ids that the nodes with an id in S depend on.
DepsOf(ns, S) ==
  {d \in Ids : \E k \in 1..Len(ns) : ns[k].id \in S /\ d \in Range(ns[k].dependsOn)}

RECURSIVE Reach(_, _, _)
Reach(ns, S, k) == IF k = 0 THEN S ELSE Reach(ns, S \cup DepsOf(ns, S), k - 1)

\* Some node id depends on itself through a chain of dependsOn entries.
HasCycle(ns) ==
  \E nid \in NodeIds(ns) : nid \in Reach(ns, DepsOf(ns, {nid}), Cardinality(Ids))

\* C4: a workflow whose dependsOn graph has a cycle ends with exit code 3, no
\* handler invoked, no input resolved and no metrics record appended.
C4_CycleExit3 ==
  (Sorted /\ HasCycle(nodes)) =>
    /\ pc = "exit" /\ exit_code = 3
    /\ invoked = {} /\ resolved = {}
    /\ metrics = <<>>
    /\ context_outputs = <<>>

C4_Witness ==
  /\ Sorted /\ HasCycle(nodes)
  /\ pc = "exit" /\ exit_code = 3
  /\ Len(order) >= 1
  /\ Len(cycles) >= 2

\* The ok:false node_result records of the journal.
FailRecords == SelectSeq(metrics, LAMBDA r : r.type = "node_result" /\ ~r.ok)

\* The failure record of node nid with error text msg.
FailRecord(nid, msg) ==
  [type |-> "node_result", node |-> nid, ok |-> FALSE, error |-> msg]

\* Every invocation of the current node's handler so far raised exc.
AllRaised(exc) ==
  \A k \in 1..Len(outcomes) : outcomes[k].kind = "raise" /\ outcomes[k].exc = exc

\* C5: for maxAttempts = m >= 1 and a handler that raises a retryable error
\* on every invocation, the handler is invoked exactly m times with one sleep
\* between consecutive attempts (m - 1 sleeps), then exactly one ok:false
\* node_result record is appended and the run ends with exit code 4.
C5_RetryExhaustion ==
  (outcomes # <<>> /\ AllRaised("RetryableError") /\ policy.max_attempts >= 1) =>
    LET m == policy.max_attempts
        n == Len(outcomes)
    IN /\ n <= m
       /\ attempt = n
       /\ n < m => /\ pc \in {"sleep", "invoke"}
                   /\ Len(sleeps) = IF pc = "sleep" THEN n - 1 ELSE n
                   /\ FailRecords = <<>>
       /\ n = m => /\ pc = "exit" /\ exit_code = 4
                   /\ Len(sleeps) = m - 1
                   /\ FailRecords = <<FailRecord(order[idx], "raised")>>
                   /\ Last(metrics) = FailRecord(order[idx], "raised")

C5_Witness ==
  /\ outcomes # <<>> /\ AllRaised("RetryableError")
  /\ policy.max_attempts >= 2
  /\ Len(outcomes) = policy.max_attempts
  /\ pc = "exit"
  /\ policy.backoff_ms > 0
  /\ \A k \in 1..Len(sleeps) : sleeps[k] = policy.backoff_ms

\* C6: when the handler raises a permanent error on attempt k, whatever
\* maxAttempts and backoffMs are, no sleep and no further invocation follow:
\* the run has ended with exit code 4 and one ok:false node_result record.
C6_PermanentNoRetry ==
  (outcomes # <<>> /\ Last(outcomes).kind = "raise"
     /\ Last(outcomes).exc = "PermanentError") =>
    /\ pc = "exit" /\ exit_code = 4
    /\ attempt = Len(outcomes)
    /\ Len(sleeps) = Len(outcomes) - 1
    /\ FailRecords = <<FailRecord(order[idx], "raised")>>
    /\ Last(metrics) = FailRecord(order[idx], "raised")
    /\ order[idx] \notin DOMAIN context_outputs

C6_Witness ==
  /\ outcomes # <<>> /\ Last(outcomes).kind = "raise"
  /\ Last(outcomes).exc = "PermanentError"
  /\ Len(outcomes) < policy.max_attempts
  /\ policy.backoff_ms > 0
  /\ pc = "exit"

\* C7: an exception that is neither the declared retryable nor the declared
\* permanent error is handled like a retryable one: from every state in which
\* a handler is about to be invoked, the iteration leaves the same state
\* (attempt loop position, sleep or exit, metrics, context, exit code and
\* printed lines) for an unclassified exception as for a retryable error.
C7_UnclassifiedAsRetryable ==
  pc = "invoke" =>
    InvokeResult([kind |-> "raise", exc |-> "Exception"])
      = InvokeResult([kind |-> "raise", exc |-> "RetryableError"])

C7_Witness ==
  /\ pc = "exit" /\ exit_code = 4
  /\ Len(outcomes) >= 2
  /\ AllRaised("Exception")
  /\ Len(sleeps) = Len(outcomes) - 1

\* C8: a handler invocation that returns a value that is not a mapping fails
\* the node permanently, for any retry policy and any timeoutMs: no further
\* invocation, no context entry, exit code 4.
C8_NonMappingPermanent ==
  (outcomes # <<>> /\ Last(outcomes).kind = "return"
     /\ Last(outcomes).value \notin Mappings) =>
    /\ pc = "exit" /\ exit_code = 4
    /\ Last(outcomes).node \notin DOMAIN context_outputs

\* Part of C9 about timeoutMs absent or 0: a returned mapping is accepted
\* whatever time the invocation took.
C9_NoTimeout ==
  (outcomes # <<>> /\ policy.timeout_ms = 0 /\ Last(outcomes).kind = "return"
     /\ Last(outcomes).value \in Mappings) =>
    /\ Last(outcomes).node \in DOMAIN context_outputs
    /\ context_outputs[Last(outcomes).node] = Last(outcomes).value
    /\ FailRecords = <<>>

\* What C9 requires after an invocation that counts as timed out: no context
\* entry, a further attempt when attempts remain, else exit code 4.
C9_TreatedAsRetryable ==
  /\ Last(outcomes).node \notin DOMAIN context_outputs
  /\ IF Len(outcomes) < policy.max_attempts
     THEN pc \in {"sleep", "invoke"} /\ FailRecords = <<>>
     ELSE pc = "exit" /\ exit_code = 4

\* C9 as stated: with timeoutMs > 0, an invocation that returns after more
\* than timeoutMs elapsed is a retryable failure; with timeoutMs 0 no elapsed
\* time causes a failure.
C9_TimeoutOnElapsed ==
  /\ (outcomes # <<>> /\ policy.timeout_ms > 0 /\ Last(outcomes).kind = "return"
        /\ Last(outcomes).over) => C9_TreatedAsRetryable
  /\ C9_NoTimeout

\* What the driver does instead: with timeoutMs > 0, an invocation that returns
\* after an elapsed time whose whole-millisecond part exceeds timeoutMs is a
\* retryable failure; with timeoutMs 0 no elapsed time causes a failure.
C9_TimeoutOnWholeMs ==
  /\ (outcomes # <<>> /\ policy.timeout_ms > 0 /\ Last(outcomes).kind = "return"
        /\ Last(outcomes).over_ms) => C9_TreatedAsRetryable
  /\ C9_NoTimeout

C9_WholeMsWitness ==
  /\ outcomes # <<>> /\ policy.timeout_ms > 0
  /\ Last(outcomes).kind = "return" /\ Last(outcomes).over_ms
  /\ Last(outcomes).value \in Mappings
  /\ Len(outcomes) < policy.max_attempts
  /\ pc = "sleep"

\* Every node of the IR is the node that ran under its id, and its handler
\* returned a mapping within the timeout.
EveryNodeSucceeded ==
  \A k \in 1..Len(nodes) :
    /\ \A j \in (k + 1)..Len(nodes) : nodes[j].id # nodes[k].id
    /\ nodes[k].id \in DOMAIN accepted

\* The ok:true node_result records of the ids of seq, in that order.
OkRecords(seq) ==
  [k \in 1..Len(seq) |-> [type |-> "node_result", node |-> seq[k], ok |-> TRUE]]

\* C10: in a run without --dry-run of an acyclic workflow of n nodes in which
\* every node succeeds, the journal receives n ok:true node_result records,
\* one per node in topological order, then one workflow_result record, OK is
\* the last line printed and the exit code is 0.
C10_HappyPath ==
  (Sorted /\ ~dry_run /\ cycles = <<>> /\ EveryNodeSucceeded) =>
    /\ Len(order) = Len(nodes)
    /\ idx = Len(nodes) + 1
    /\ pc \in {"node", "exit"}
    /\ pc = "node" => metrics = OkRecords(order) /\ exit_code = -1
    /\ pc = "exit" =>
         /\ metrics = Append(OkRecords(order),
                             [type |-> "workflow_result", ok |-> TRUE])
         /\ Last(stdout) = <<"OK">>
         /\ exit_code = 0

C10_Witness ==
  /\ Sorted /\ ~dry_run /\ cycles = <<>> /\ EveryNodeSucceeded
  /\ Len(nodes) = 3
  /\ pc = "exit" /\ exit_code = 0
  /\ \E k \in 1..Len(nodes) : nodes[k].dependsOn # <<>>

\* C11: every run that ends with exit code 4 (a resolver error, a permanent
\* handler error, exhausted retries or a quarantine hit) has appended exactly
\* one ok:false node_result record, which names the failing node and is the
\* last record of the journal.
C11_FailureRecord ==
  (pc = "exit" /\ exit_code = 4) =>
    /\ Len(FailRecords) = 1
    /\ metrics # <<>>
    /\ Last(metrics) = FailRecords[1]
    /\ FailRecords[1].node = order[idx]

\* What the driver does instead: a run that ends with exit code 4 after a
\* handler invocation has appended exactly one ok:false node_result record,
\* the last of the journal, naming the failing node; a run that ends with
\* exit code 4 at the resolver or at the quarantine check has appended none.
C11_RecordOnlyAfterInvocation ==
  (pc = "exit" /\ exit_code = 4) =>
    IF Len(Last(stdout)) = 1
    THEN /\ Len(FailRecords) = 1
         /\ Last(metrics) = FailRecords[1]
         /\ FailRecords[1].node = order[idx]
         /\ order[idx] \in invoked
    ELSE /\ FailRecords = <<>>
         /\ order[idx] \notin invoked

C11_NoRecordWitness ==
  /\ pc = "exit" /\ exit_code = 4
  /\ FailRecords = <<>>
  /\ metrics # <<>>
  /\ Last(stdout)[3] = "$ref to unknown node"

\* The journal has a workflow_result record.
HasWorkflowResult ==
  \E k \in 1..Len(metrics) : metrics[k].type = "workflow_result"

\* The handler of every node id returned a mapping in time and the journal
\* has the ok:true node_result record of the id.
EveryIdSucceeded ==
  \A nid \in NodeIds(nodes) :
    /\ nid \in invoked
    /\ nid \in DOMAIN accepted
    /\ \E k \in 1..Len(metrics) :
         metrics[k] = [type |-> "node_result", node |-> nid, ok |-> TRUE]

\* C12: the journal has a workflow_result record only at the end of a run
\* that exits 0 and in which the handler of every node returned successfully
\* and an ok:true node_result record of every node precedes the
\* workflow_result record, which is the last record.
C12_WorkflowResultOnlyOnSuccess ==
  HasWorkflowResult =>
    /\ pc = "exit" /\ exit_code = 0
    /\ Last(metrics).type = "workflow_result"
    /\ Cardinality({k \in 1..Len(metrics) :
                      metrics[k].type = "workflow_result"}) = 1
    /\ EveryIdSucceeded

\* What holds instead: C12 for the runs without --dry-run; with --dry-run the
\* workflow_result record is the only record of the journal and no handler
\* was invoked.
C12_ExceptDryRun ==
  HasWorkflowResult =>
    /\ pc = "exit" /\ exit_code = 0
    /\ Last(metrics).type = "workflow_result"
    /\ Cardinality({k \in 1..Len(metrics) :
                      metrics[k].type = "workflow_result"}) = 1
    /\ IF dry_run THEN Len(metrics) = 1 /\ invoked = {}
       ELSE EveryIdSucceeded

C12_DryRunWitness ==
  /\ HasWorkflowResult
  /\ dry_run
  /\ Len(order) = 2

\* The ids that come after position k of the order.
After(k) == {order[j] : j \in (k + 1)..Len(order)}

\* The ids named by the node_result records of the journal.
RecordedIds ==
  {metrics[k].node : k \in {j \in 1..Len(metrics) : metrics[j].type = "node_result"}}

\* Some node has failed: a NODE_FAILED line that names a node was printed.
SomeNodeFailed ==
  \E k \in 1..Len(stdout) : Len(stdout[k]) = 3 /\ stdout[k][1] = "NODE_FAILED"

\* C13: once a node has failed terminally the run has stopped at that node:
\* the nodes later in the topological order, whether they depend on the
\* failed node or not, have no handler invocation, no input resolution, no
\* context entry and no metrics record, and no step of the run follows.
C13_StopAtFirstFailure ==
  /\ [](SomeNodeFailed =>
          /\ pc = "exit" /\ exit_code \in {3, 4}
          /\ \E k \in 1..Len(stdout) :
               /\ Len(stdout[k]) = 3 /\ stdout[k][2] = order[idx]
               /\ \A j \in 1..Len(stdout) :
                    (j # k /\ Len(stdout[j]) = 3) => stdout[j][1] # "NODE_FAILED"
          /\ After(idx) \cap (invoked \cup resolved) = {}
          /\ After(idx) \cap DOMAIN context_outputs = {}
          /\ After(idx) \cap RecordedIds = {}
          /\ ~HasWorkflowResult
          /\ Len(FailRecords) <= 1
          /\ FailRecords # <<>> => Last(metrics) = FailRecords[1])
  /\ [][SomeNodeFailed => UNCHANGED vars]_vars

C13_Witness ==
  /\ SomeNodeFailed
  /\ pc = "exit" /\ exit_code = 4
  /\ FailRecords # <<>>
  /\ idx = 1 /\ Len(order) = 3
  /\ \A nid \in After(idx) : id_to_node(nodes)[nid].dependsOn = <<>>

\* The journal lists node_result records in topological order, at most one
\* per node.
RecordsInOrder ==
  \A j, k \in 1..Len(metrics) :
    (j < k /\ metrics[j].type = "node_result" /\ metrics[k].type = "node_result")
      => Pos(order, metrics[j].node) < Pos(order, metrics[k].node)

\* C14: for A before B in the topological order: A's handler is not invoked
\* once B's handler has been invoked, and when B's handler is invoked or
\* B's input is resolved the driver is done with A; without --dry-run A's
\* output is then in the context; A's node_result record precedes B's.
C14_SequentialOrder ==
  /\ [](Sorted /\ cycles = <<>> =>
          /\ \A B \in invoked \cup resolved :
               /\ B \in Range(order) /\ Pos(order, B) <= idx
               /\ \A A \in Range(order) :
                    Pos(order, A) < Pos(order, B) =>
                      /\ A \in DOMAIN context_outputs
                      /\ A \in DOMAIN accepted
                      /\ context_outputs[A] = accepted[A]
          /\ RecordsInOrder)
  /\ [][/\ idx' >= idx
        /\ \A nid \in (invoked' \ invoked) \cup (resolved' \ resolved) :
             nid = order[idx]]_vars

C14_Witness ==
  /\ Sorted /\ cycles = <<>> /\ ~dry_run
  /\ Len(order) = 3 /\ idx = 3
  /\ invoked = Range(order)
  /\ Len(metrics) = 3
  /\ pc = "exit"

\* An input with a string leaf that contains both "{{" and "}}".
TemplateInput == [kind |-> "template"]

\* C15: the template-literal gate follows the run's mode (--mode when given,
\* else AUTOMATOR_MODE, else explore): when the driver resolves an input with
\* a template literal, in mode verify or prod the run ends with exit code 4
\* and the node's handler is not invoked; in mode explore the driver goes on
\* to invoke the handler.
C15_TemplateGateFollowsMode ==
  [][pc = "node" =>
     \A act \in Actions :
       (ReadsInput(act) /\ BeginNodeWith(act, TemplateInput)) =>
         IF mode \in {"verify", "prod"}
         THEN pc' = "exit" /\ exit_code' = 4 /\ invoked' = invoked
         ELSE pc' = "invoke" /\ exit_code' = exit_code]_vars

\* What the driver does instead: the gate follows AUTOMATOR_MODE alone,
\* whatever --mode is.
C15_TemplateGateFollowsEnviron ==
  [][pc = "node" =>
     \A act \in Actions :
       (ReadsInput(act) /\ BeginNodeWith(act, TemplateInput)) =>
         IF environ_mode \in {"verify", "prod"}
         THEN pc' = "exit" /\ exit_code' = 4 /\ invoked' = invoked
         ELSE pc' = "invoke" /\ exit_code' = exit_code]_vars

\* The run was aborted by the template-literal gate.
TemplateAbort ==
  /\ pc = "exit"
  /\ Len(Last(stdout)) = 3
  /\ Last(stdout)[3] = "template literals not allowed"

C15_EnvironWitness ==
  /\ TemplateAbort
  /\ args_mode = "explore"
  /\ env_mode = "prod"

\* C16: in mode verify or prod without --dry-run, a run that the
\* template-literal gate aborts has invoked the handler of no node.
C16_TemplateAbortsBeforeAnyHandler ==
  (TemplateAbort /\ mode \in {"verify", "prod"} /\ ~dry_run) => invoked = {}

\* What the driver does instead: the gate aborts the run when the loop
\* reaches the node, after the handlers of all nodes before it in the
\* topological order have been invoked.
C16_EarlierHandlersRan ==
  TemplateAbort =>
    /\ exit_code = 4
    /\ invoked = {order[k] : k \in 1..(idx - 1)}
    /\ DOMAIN context_outputs = invoked

C16_EarlierWitness ==
  /\ TemplateAbort
  /\ mode = "verify" /\ environ_mode = "verify"
  /\ idx = 2
  /\ invoked = {"a"}

\* The action of a node without its quarantine entry.
Unlisted(act) == [act EXCEPT !.quarantined = FALSE]

\* The driver is at the top of the loop body for a node.
NodeReached == pc = "node" /\ idx <= Len(order)

\* The run was ended by the quarantine check.
QuarantineAbort ==
  /\ pc = "exit"
  /\ Len(Last(stdout)) = 3
  /\ Last(stdout)[3] = "action quarantined"

\* C17: for every node the driver reaches whose (actionRef, schemaVersion)
\* is in the quarantine list: in mode verify or prod the lookup ends the run
\* at the quarantine check, with exit code 4 and the node's handler not
\* invoked; in mode explore the lookup does what it does for the same action
\* with an empty list.
C17_QuarantineGate ==
  /\ NodeReached =>
       \A act \in {a \in Actions : a.quarantined} :
         IF mode \in {"verify", "prod"}
         THEN Lookup(act).res = "quarantined"
         ELSE Lookup(act) = Lookup(Unlisted(act))
  /\ QuarantineAbort =>
       /\ exit_code = 4
       /\ mode \in {"verify", "prod"}
       /\ order[idx] \notin invoked \cup resolved

\* The lookup finds a handler for the action: actionRef is a string and the
\* pair is registered or, with mock-IO on, actionRef is in the mock table.
HandlerFound(act) ==
  /\ act.ref # "not_str"
  /\ act.registered \/ (mock_io /\ act.ref = "mocked")

\* C17 as amended: the same for the nodes for whose action the lookup finds
\* a handler.
C17_QuarantineGateWhenHandlerFound ==
  /\ NodeReached =>
       \A act \in {a \in Actions : a.quarantined /\ HandlerFound(a)} :
         IF mode \in {"verify", "prod"}
         THEN Lookup(act).res = "quarantined"
         ELSE Lookup(act) = Lookup(Unlisted(act))
  /\ QuarantineAbort =>
       /\ exit_code = 4
       /\ mode \in {"verify", "prod"}
       /\ order[idx] \notin invoked \cup resolved

C17_Witness ==
  /\ QuarantineAbort
  /\ Last(stdout)[2] = "b"
  /\ mode = "prod" /\ args_mode = "absent"
  /\ invoked = {"a"}

\* The lookup lets the node run (it is not ended by a missing handler).
Runs(lk) == lk.res \in {"handler", "quarantined"}

\* C18: with mock-IO on, for a node whose actionRef is in the mock table the
\* handler selected, and so the one invoked, is the mock, whether or not a
\* real handler is registered; for an actionRef outside the mock table it is
\* the real handler if one is registered, else the run exits 3; with mock-IO
\* off the handler invoked is never a mock.
C18_MockOverlay ==
  /\ NodeReached =>
       \A act \in {a \in Actions : a.ref # "not_str"} :
         LET lk == Lookup(act) IN
         /\ (mock_io /\ act.ref = "mocked") => Runs(lk) /\ lk.handler = "mock"
         /\ (mock_io /\ act.ref = "unmocked") =>
              IF act.registered THEN Runs(lk) /\ lk.handler = "real"
              ELSE lk.res = "not_implemented"
         /\ ~mock_io => lk.handler # "mock"
  /\ pc \in {"invoke", "sleep"} => handler \in {"real", "mock"}
  /\ order # <<>> /\ idx \in 1..Len(order) /\ order[idx] \in invoked =>
       handler \in {"real", "mock"}
  /\ ~mock_io => handler # "mock"
  /\ (pc = "exit" /\ Len(Last(stdout)) = 3
        /\ Last(stdout)[3] = "action not implemented") =>
       exit_code = 3 /\ handler = "none"

C18_Witness ==
  /\ pc = "exit" /\ exit_code = 0
  /\ ~dry_run
  /\ mock_io /\ handler = "mock"
  /\ invoked = {"a", "b"}

\* C19: mock-IO is in effect (a mock handler can be selected) exactly when
\* --mock-io is passed, or the run's mode is verify and AUTOMATOR_MOCK_IO is
\* '1'; AUTOMATOR_MOCK_IO alone has no effect in mode explore or prod.
C19_MockIoActivation ==
  LET requested == args_mock_io \/ (mode = "verify" /\ env_mock_io)
      mocked == [ref |-> "mocked", registered |-> TRUE, quarantined |-> FALSE]
  IN /\ handler = "mock" => requested
     /\ NodeReached => (Lookup(mocked).handler = "mock" <=> requested)
     /\ (env_mock_io /\ ~args_mock_io /\ mode \in {"explore", "prod"}) =>
          /\ handler # "mock"
          /\ NodeReached => Lookup(mocked).handler = "real"

C19_Witness ==
  /\ handler = "mock"
  /\ ~args_mock_io /\ env_mock_io
  /\ args_mode = "absent" /\ env_mode = "verify"
  /\ pc = "exit" /\ exit_code = 0

\* The run was ended by the lookup of a node's action.
LookupAbort ==
  /\ pc = "exit"
  /\ Len(Last(stdout)) = 3
  /\ Last(stdout)[3] \in {"invalid actionRef", "action not implemented",
                          "action quarantined"}

IrPos(nid) == CHOOSE k \in 1..Len(nodes) : nodes[k].id = nid

\* The ids emitted at the first k positions of the order.
Emitted(k) == {order[j] : j \in 1..k}

\* The ids ready just before position k of the order is emitted: not yet
\* emitted, every dependsOn id emitted.
ReadyAt(k) ==
  {nid \in NodeIds(nodes) \ Emitted(k - 1) :
     Range(nodes[IrPos(nid)].dependsOn) \subseteq Emitted(k - 1)}

\* C21: for a workflow with distinct ids and no cycle ids, every id emitted
\* is, among the ids ready at that step, the one that appears first in the
\* IR node list.
C21_ReadyInIrOrder ==
  (Sorted /\ DistinctIds(nodes) /\ cycles = <<>>) =>
    \A k \in 1..Len(order) : \A r \in ReadyAt(k) : IrPos(order[k]) <= IrPos(r)

\* The position of the order after which the id becomes ready: that of the
\* last emitted of its dependsOn ids, 0 without any.
ReadyTime(nid) ==
  LET ps == {Pos(order, d) : d \in Range(nodes[IrPos(nid)].dependsOn)}
  IN IF ps = {} THEN 0 ELSE CHOOSE m \in ps : \A x \in ps : x <= m

\* What _topo_order does instead: ids are emitted first in, first out: in the
\* order in which they become ready, and in IR order among those that become
\* ready at the same step.
C21_FirstReadyFirstOut ==
  (Sorted /\ DistinctIds(nodes) /\ cycles = <<>>) =>
    \A i, j \in 1..Len(order) :
      i < j =>
        \/ ReadyTime(order[i]) < ReadyTime(order[j])
        \/ /\ ReadyTime(order[i]) = ReadyTime(order[j])
           /\ IrPos(order[i]) < IrPos(order[j])

C21_FifoWitness ==
  /\ Sorted /\ DistinctIds(nodes) /\ cycles = <<>>
  /\ Len(order) = 3
  /\ IrPos(order[2]) = 3 /\ IrPos(order[3]) = 2
  /\ ReadyAt(2) = {order[2], order[3]}

\* The id depends on itself through a chain of dependsOn entries.
OnCycle(ns, nid) == nid \in Reach(ns, DepsOf(ns, {nid}), Cardinality(Ids))

\* Every dependsOn id is the id of a node.
AllDepsExist(ns) ==
  \A k \in 1..Len(ns) : Range(ns[k].dependsOn) \subseteq NodeIds(ns)

\* No dependsOn list names an id twice.
NoRepeatedDeps(ns) ==
  \A k \in 1..Len(ns) :
    Cardinality(Range(ns[k].dependsOn)) = Len(ns[k].dependsOn)

\* C22 (for workflows with distinct ids and no repeated dependsOn entry):
\* when every dependsOn id exists and _topo_order returns cycle ids, the ids
\* returned are exactly the ids that lie on a cycle of dependsOn entries.
C22_CycleListIsCycles ==
  (Sorted /\ DistinctIds(nodes) /\ AllDepsExist(nodes) /\ NoRepeatedDeps(nodes)
     /\ cycles # <<>>) =>
    Range(cycles) = {nid \in NodeIds(nodes) : OnCycle(nodes, nid)}

\* What _topo_order returns instead: the ids that lie on a cycle together
\* with the ids that depend, directly or through other nodes, on one that
\* does.
C22_CycleListIsBlocked ==
  (Sorted /\ DistinctIds(nodes) /\ AllDepsExist(nodes) /\ NoRepeatedDeps(nodes)) =>
    Range(cycles) =
      {nid \in NodeIds(nodes) :
         \E c \in Reach(nodes, {nid}, Cardinality(Ids)) : OnCycle(nodes, c)}

C22_BlockedWitness ==
  /\ Sorted /\ DistinctIds(nodes) /\ AllDepsExist(nodes) /\ NoRepeatedDeps(nodes)
  /\ Len(cycles) = 3
  /\ \E nid \in Range(cycles) : ~OnCycle(nodes, nid)

\* The run ended on the resolver's error for a $ref that names a node id
\* absent from the output context.
UnknownRefAbort ==
  /\ pc = "exit"
  /\ Len(Last(stdout)) = 3
  /\ Last(stdout)[3] = "$ref to unknown node"

\* C23: a node is failed on the first occurrence of a $ref to an unknown
\* node only when its retry policy leaves no further attempt: a run that
\* ends on that error at its first resolution of the node's input does so
\* for a node whose maxAttempts is at most 1.
C23_UnknownRefRetried ==
  UnknownRefAbort => CurNode.maxAttempts <= 1

\* What the driver does instead: the first occurrence ends the run with exit
\* code 4, whatever the retry policy, before the node's handler is invoked
\* and without a metrics record for the node.
C23_UnknownRefExitsAtOnce ==
  UnknownRefAbort =>
    /\ exit_code = 4
    /\ order[idx] \in resolved
    /\ order[idx] \notin invoked
    /\ order[idx] \notin RecordedIds

C23_AtOnceWitness ==
  /\ UnknownRefAbort
  /\ CurNode.maxAttempts = MaxAttempts
  /\ CurNode.backoffMs = MaxBackoff

\* The parsed IR is not a mapping, or its kind is not "process", or its
\* nodes is missing, empty or not a sequence.
InvalidIr == ir_shape # "process" \/ nodes = <<>>

\* C28: once main() has checked an invalid IR, the run is at exit with code
\* 2 and the line of the failed check, the graph has not been sorted, no
\* node's input was resolved, no handler was invoked and the journal is
\* empty.
C28_InvalidIrRejected ==
  (pc # "start" /\ InvalidIr) =>
    /\ pc = "exit"
    /\ exit_code = 2
    /\ stdout = <<IF ir_shape \in {"not_mapping", "bad_kind"}
                  THEN <<"NODE_FAILED", "invalid IR">>
                  ELSE <<"NODE_FAILED", "no nodes">> >>
    /\ order = <<>> /\ cycles = <<>>
    /\ resolved = {} /\ invoked = {}
    /\ context_outputs = <<>>
    /\ metrics = <<>>

C28_Witness ==
  /\ pc = "exit"
  /\ ir_shape = "process"
  /\ nodes = <<>>
  /\ exit_code = 2

\* C29: once main() has sorted a workflow in which some dependsOn entry
\* names an id that is the id of no node, the run is at exit with code 3 on
\* the cycle line, the node with that entry is among the ids reported, no
\* node's input was resolved, no handler was invoked and the journal is
\* empty.
C29_DanglingDependsOnRejected ==
  (Sorted /\ ~AllDepsExist(nodes)) =>
    /\ pc = "exit"
    /\ exit_code = 3
    /\ stdout = << <<"NODE_FAILED", "cycle detected">> >>
    /\ \A k \in 1..Len(nodes) :
         ~(Range(nodes[k].dependsOn) \subseteq NodeIds(nodes)) =>
           nodes[k].id \in Range(cycles)
    /\ resolved = {} /\ invoked = {}
    /\ context_outputs = <<>>
    /\ metrics = <<>>

\* Rejected for the dangling entry alone: without it the workflow has no
\* cycle, and the other nodes were emitted.
C29_Witness ==
  /\ Sorted /\ DistinctIds(nodes)
  /\ ~AllDepsExist(nodes)
  /\ ~HasCycle(nodes)
  /\ exit_code = 3
  /\ Len(nodes) = 2
  /\ Len(order) = 1

\* C30: for a workflow with distinct ids whose dependsOn ids all exist and
\* whose dependsOn graph has no cycle, whether or not a dependsOn list names
\* an id several times, _topo_order reports no cycle ids and returns an order
\* that contains every node.
C30_DependsOnSetSemantics ==
  (Sorted /\ DistinctIds(nodes) /\ AllDepsExist(nodes) /\ ~HasCycle(nodes)) =>
    /\ cycles = <<>>
    /\ Range(order) = NodeIds(nodes)

\* The ids of the nodes whose dependsOn list names an id several times.
RepeatedDepsIds(ns) ==
  {ns[k].id : k \in {j \in 1..Len(ns) :
                       Cardinality(Range(ns[j].dependsOn)) < Len(ns[j].dependsOn)}}

\* What _topo_order does instead: a node whose dependsOn list names an id
\* several times is reported as a cycle id, and with it every node that
\* depends on it, directly or through other nodes; the other nodes are
\* emitted.
C30_RepeatedEntryReported ==
  (Sorted /\ DistinctIds(nodes) /\ AllDepsExist(nodes) /\ ~HasCycle(nodes)) =>
    /\ Range(cycles) =
         {nid \in NodeIds(nodes) :
            Reach(nodes, {nid}, Cardinality(Ids)) \cap RepeatedDepsIds(nodes) # {}}
    /\ Range(order) = NodeIds(nodes) \ Range(cycles)

C30_RepeatedWitness ==
  /\ Sorted /\ DistinctIds(nodes) /\ AllDepsExist(nodes) /\ ~HasCycle(nodes)
  /\ RepeatedDepsIds(nodes) # {}
  /\ exit_code = 3
  /\ order # <<>>

(***************************************************************************)
(* The resolver (SpecResolve)                                              *)
(***************************************************************************)
\* The field name of a mapping, as a sequence of no or one value.
Field(v, name) ==
  IF v.t = "map" /\ name \in Keys(v) THEN <<Get(v, name)>> ELSE <<>>

\* Member n, counted from 0, of the list vs holds, if vs holds a list that
\* has one.
Member(vs, n) ==
  IF vs # <<>> /\ vs[1].t = "list" /\ 0 <= n /\ n < Len(vs[1].l)
  THEN <<vs[1].l[n + 1]>>
  ELSE <<>>

\* What one token of a path denotes in the value v, by the spec's grammar:
\* a name is a field of a mapping; head[n] is member n of the list at the
\* field head, [n] member n of v itself; anything else denotes nothing.
Step(v, tok) ==
  IF tok \in Names THEN Field(v, tok)
  ELSE IF \E h \in Heads, n \in Indexes : tok = IndexToken(h, n)
  THEN LET hn == CHOOSE hn \in Heads \X Indexes : tok = IndexToken(hn[1], hn[2])
       IN Member(IF hn[1] = <<>> THEN <<v>> ELSE Field(v, hn[1]), hn[2])
  ELSE <<>>

\* What the tokens of a path denote in v, one after the other.
RECURSIVE Denote(_, _)
Denote(v, tail) ==
  IF tail = <<>> THEN <<v>>
  ELSE LET w == Step(v, Head(tail))
       IN IF w = <<>> THEN <<>> ELSE Denote(w[1], Tail(tail))

\* The path the node's input was made with.
RefPathOfInput == Join(ref_parts, ".")

\* The node's input has a {"$ref": path} with a string path, at the top or
\* inside a mapping or a list.
InputHasRef ==
  /\ ref_parts # <<>>
  /\ node_input \in {Ref(RefPathOfInput), InMap(RefPathOfInput),
                     InList(RefPathOfInput)}

\* The path is well formed and names a node of the output context.
RefToKnownNode ==
  /\ ref_parts \notin BadPartLists
  /\ ref_parts[3] \in Keys(context_outputs)

\* What the path denotes in the output context.
RefTarget ==
  Denote(Get(context_outputs, ref_parts[3]), SubSeq(ref_parts, 5, Len(ref_parts)))

\* The texts of the permanent errors of _resolve_ref.
PermanentRefTexts ==
  {"Unsupported $ref path", "$ref field not found", "$ref invalid index",
   "$ref index out of range"}

\* C24: when the input of a node has a $ref whose path is malformed, or
\* whose tokens denote nothing in the output of the node it names (a field
\* absent from a mapping, an index applied to a non-sequence or out of
\* range, a negative index included), resolving the input ends the run with
\* exit code 4 on a permanent resolver error: the node's handler was not
\* invoked, nothing was passed to it and the output context is one of the
\* contexts the run started from.
C24_PermanentRefError ==
  (pc # "resolve" /\ InputHasRef
     /\ (ref_parts \in BadPartLists \/ (RefToKnownNode /\ RefTarget = <<>>))) =>
    /\ pc = "exit"
    /\ exit_code = 4
    /\ stdout = << <<"NODE_FAILED", ThisNode, Last(stdout)[3]>> >>
    /\ Last(stdout)[3] \in PermanentRefTexts
    /\ invoked = {}
    /\ resolved_input = NoValue
    /\ context_outputs \in Contexts

\* The run ended on a negative index into a list that has members.
C24_Witness ==
  /\ pc = "exit"
  /\ node_input = InList(RefPathOfInput)
  /\ ref_parts = RefParts(S_a, <<S_l, IndexToken(<<>>, -1)>>)
  /\ Last(stdout)[3] = "$ref index out of range"
  /\ S_a \in Keys(context_outputs)
  /\ Field(Get(context_outputs, S_a), S_l) # <<>>

\* _resolve_input has returned for the node's input.
Returned == pc \in {"invoke", "node"}

\* The value has, at some depth, a mapping whose only key is $ref and whose
\* $ref is a string.
RECURSIVE HasRefLeaf(_)
HasRefLeaf(v) ==
  \/ /\ v.t = "map"
     /\ \/ Keys(v) = {S_ref} /\ Get(v, S_ref).t = "str"
        \/ \E i \in 1..Len(v.kv) : HasRefLeaf(v.kv[i][2])
  \/ /\ v.t = "list"
     /\ \E i \in 1..Len(v.l) : HasRefLeaf(v.l[i])

\* C25: when _resolve_input has returned, the returned value has no mapping
\* whose only key is $ref with a string value, at any depth.
C25_NoRefLeafReturned ==
  Returned => ~HasRefLeaf(resolved_input)

\* What the resolver does instead: the $ref mappings of the input tree are
\* replaced, but a value taken from an upstream output is returned as it is,
\* with the $ref mappings it has.
C25_RefLeavesOnlyFromUpstream ==
  (Returned /\ HasRefLeaf(resolved_input)) =>
    /\ InputHasRef
    /\ RefToKnownNode
    /\ RefTarget # <<>>
    /\ HasRefLeaf(RefTarget[1])

C25_UpstreamWitness ==
  /\ pc = "invoke"
  /\ node_input = Ref(RefPathOfInput)
  /\ ref_parts = RefParts(S_a, <<S_y>>)
  /\ resolved_input = Ref(Join(RefParts(S_a, <<S_x>>), "."))

\* The node's input with its {"$ref": path} replaced by the value the path
\* denotes in the output context, everything else as it is.
Substituted ==
  IF node_input = Ref(RefPathOfInput) THEN RefTarget[1]
  ELSE IF node_input = InMap(RefPathOfInput)
  THEN MapV(<< <<S_x, RefTarget[1]>>, <<S_y, StrV(S_x)>> >>)
  ELSE IF node_input = InList(RefPathOfInput)
  THEN ListV(<<IntV(1), RefTarget[1]>>)
  ELSE node_input

\* C26: when _resolve_input has returned, the returned value is the input
\* tree in which exactly the mappings with the single key $ref and a string
\* value are replaced by the value their path denotes in the output context:
\* a mapping with $ref and another key, a mapping whose $ref is not a
\* string, sequences and scalars are returned with the same keys, length,
\* order and scalar members.  It returns whenever every path of the tree
\* denotes a value and no string of it is refused as a template literal.
C26_SubstitutesExactlyRefLeaves ==
  /\ Returned =>
       /\ InputHasRef => (RefToKnownNode /\ RefTarget # <<>>)
       /\ resolved_input = Substituted
  /\ (pc # "resolve" /\ InputHasRef /\ RefToKnownNode /\ RefTarget # <<>>) =>
       Returned
  /\ (pc # "resolve" /\ ~InputHasRef
        /\ node_input # StrV(<<"{", "{", "x", "}", "}">>)) =>
       Returned

\* A $ref inside a mapping was replaced by a member of an upstream list.
C26_Witness ==
  /\ pc = "invoke"
  /\ node_input = InMap(RefPathOfInput)
  /\ ref_parts = RefParts(S_a, <<IndexToken(S_l, 1), S_x>>)
  /\ resolved_input = MapV(<< <<S_x, IntV(8)>>, <<S_y, StrV(S_x)>> >>)

\* C31: a workflow in which two nodes share an id is rejected before any
\* handler is invoked: once main() has checked such a workflow the run is at
\* exit, with no handler invoked.
C31_DuplicateIdsRejected ==
  (Sorted /\ ~DistinctIds(nodes)) => (pc = "exit" /\ invoked = {})

\* What the driver does instead: ids are never compared.  _topo_order keys
\* its table by id and id_to_node keeps the last node of each id, so a
\* workflow without cycle ids runs each id once, however many nodes carry
\* it, with the definition of the last of them.
C31_EachIdRunsOnce ==
  (Sorted /\ cycles = <<>>) =>
    /\ Range(order) = NodeIds(nodes)
    /\ Len(order) = Cardinality(NodeIds(nodes))
    /\ \A nid \in NodeIds(nodes) :
         id_to_node(nodes)[nid] =
           nodes[CHOOSE k \in 1..Len(nodes) :
                   /\ nodes[k].id = nid
                   /\ \A j \in (k + 1)..Len(nodes) : nodes[j].id # nid]

\* A workflow of three nodes, two of them with the same id and different
\* dependsOn lists, ran to exit code 0 with one invocation per id.
C31_DroppedWitness ==
  /\ pc = "exit" /\ exit_code = 0
  /\ Len(nodes) = 3
  /\ \E i, j \in 1..3 :
       /\ i < j
       /\ nodes[i].id = nodes[j].id
       /\ nodes[i].dependsOn # nodes[j].dependsOn
  /\ Cardinality(invoked) = 2
  /\ Cardinality(RecordedIds) = 2

\* C32: no step of a run removes an entry of the output context or changes
\* its value; a step adds at most one entry, that of the node the loop is
\* at, which had none before, and the loop then leaves that node for good.
C32_ContextWriteOnce ==
  [][/\ \A nid \in DOMAIN context_outputs :
          /\ nid \in DOMAIN context_outputs'
          /\ context_outputs'[nid] = context_outputs[nid]
     /\ DOMAIN context_outputs' # DOMAIN context_outputs =>
          /\ pc \in {"node", "invoke"}
          /\ order[idx] \notin DOMAIN context_outputs
          /\ DOMAIN context_outputs' = DOMAIN context_outputs \cup {order[idx]}
          /\ idx' = idx + 1]_vars

\* The context holds the outputs of two nodes, written one after the other.
C32_Witness ==
  /\ pc = "exit" /\ exit_code = 0
  /\ ~dry_run
  /\ Len(order) = 3
  /\ DOMAIN context_outputs = Range(order)
  /\ \E nid \in DOMAIN context_outputs : context_outputs[nid] = "m2"

\* The members of s at the positions where keep is TRUE.
RECURSIVE Kept(_, _)
Kept(s, keep) ==
  IF s = <<>> THEN <<>>
  ELSE IF Head(keep) THEN <<Head(s)>> \o Kept(Tail(s), Tail(keep))
  ELSE Kept(Tail(s), Tail(keep))

\* The ids of the nodes the loop has left behind.
Passed == {order[k] : k \in 1..(idx - 1)}

\* C33 (runs in which any append to metrics.jsonl may raise): the journal
\* is what the run tried to append minus the appends that raised, and the
\* run goes as if every append had succeeded.  What it tried to append is
\* one ok record for each node passed, in order, then the failure record if
\* a handler failed the run, or the workflow_result if no node failed.  A
\* node whose handler returned a mapping in time is passed with that mapping
\* in the context: it is never invoked again and never fails the run.  The
\* run ends with exit code 0 exactly when all nodes are passed.
C33_WriteErrorsSwallowed ==
  /\ \E keep \in [1..Len(writes) -> BOOLEAN] : metrics = Kept(writes, keep)
  /\ (pc # "start" /\ ~dry_run) =>
       /\ DOMAIN context_outputs = Passed
       /\ DOMAIN accepted = Passed
       /\ \A nid \in Passed : context_outputs[nid] = accepted[nid]
       /\ Passed \subseteq invoked
       /\ SubSeq(writes, 1, idx - 1) = OkRecords(SubSeq(order, 1, idx - 1))
       /\ Len(writes) \in {idx - 1, idx}
       /\ Len(writes) = idx =>
            /\ pc = "exit"
            /\ IF idx > Len(order)
               THEN exit_code = 0 /\ Last(writes).type = "workflow_result"
               ELSE /\ exit_code = 4
                    /\ Last(writes).node = order[idx]
                    /\ ~Last(writes).ok
                    /\ Len(outcomes) = attempt
       /\ pc = "exit" => (exit_code = 0 <=> idx > Len(order))
       /\ exit_code = 0 => Len(writes) = idx
  /\ (pc # "start" /\ dry_run) =>
       /\ invoked = {}
       /\ writes \in {<<>>, <<[type |-> "workflow_result", ok |-> TRUE]>>}
       /\ writes # <<>> <=> (pc = "exit" /\ exit_code = 0)

\* Every append of a two-node run raised, and the run ended with exit code 0
\* after one retry of a node.
C33_Witness ==
  /\ pc = "exit" /\ exit_code = 0
  /\ ~dry_run
  /\ Len(order) = 2
  /\ Len(writes) = 3
  /\ metrics = <<>>
  /\ Len(outcomes) = 2
  /\ Cardinality(invoked) = 2

\* The run was ended by the actionRef type check or by the handler lookup.
MissingHandlerAbort ==
  /\ pc = "exit"
  /\ Len(Last(stdout)) = 3
  /\ Last(stdout)[3] \in {"invalid actionRef", "action not implemented"}

\* C34: at every node the loop reaches, an action whose actionRef is not a
\* string is refused as an invalid actionRef, and an action with a string
\* actionRef that is not registered and that no mock stands in for (mock-IO
\* off, or actionRef not in the mock table) is refused as not implemented,
\* whatever the mode and the quarantine list; a run ended by either has exit
\* code 3, and the node it names was not invoked, had no input resolved, has
\* no context entry and no node_result record.
C34_MissingHandlerExit3 ==
  /\ NodeReached =>
       \A act \in Actions :
         /\ act.ref = "not_str" => Lookup(act).res = "invalid_action_ref"
         /\ (act.ref # "not_str" /\ ~act.registered
               /\ ~(mock_io /\ act.ref = "mocked")) =>
              Lookup(act).res = "not_implemented"
  /\ MissingHandlerAbort =>
       /\ exit_code = 3
       /\ Last(stdout)[2] = order[idx]
       /\ order[idx] \notin invoked \cup resolved
       /\ order[idx] \notin DOMAIN context_outputs
       /\ order[idx] \notin RecordedIds

\* With mock-IO on, the second node had no handler after the first had run.
C34_Witness ==
  /\ MissingHandlerAbort
  /\ Last(stdout) = <<"NODE_FAILED", "b", "action not implemented">>
  /\ mock_io
  /\ mode = "verify"
  /\ invoked = {"a"}

\* The ids the node depends on, directly or through other nodes.
Ancestors(nid) == Reach(nodes, DepsOf(nodes, {nid}), Cardinality(Ids))

\* The node inputs that are a $ref to a node.
RefInputs == {inp \in Inputs : inp.kind = "ref"}

\* C35: in a run without --dry-run of a workflow with distinct ids, at every
\* node the loop reaches, a $ref that resolves names a node that the node
\* reached depends on, directly or through other nodes.
C35_RefsResolveUpstreamOnly ==
  (NodeReached /\ ~dry_run /\ DistinctIds(nodes)) =>
    \A inp \in RefInputs :
      resolve_input(inp, context_outputs) = "ok" =>
        inp.nid \in Ancestors(order[idx])

\* What the resolver does instead: a $ref resolves against any entry of the
\* output context, that is, against the output of any node that is earlier
\* in the topological order and whose handler returned a mapping in this
\* run, whether or not the node reached depends on it.
C35_RefsResolveEarlierNodes ==
  (NodeReached /\ ~dry_run) =>
    \A inp \in RefInputs :
      resolve_input(inp, context_outputs) = "ok" <=>
        /\ inp.found
        /\ \E k \in 1..(idx - 1) : order[k] = inp.nid
        /\ inp.nid \in invoked
        /\ inp.nid \in DOMAIN accepted
        /\ context_outputs[inp.nid] = accepted[inp.nid]

\* The loop is at the second of two nodes that do not depend on each other,
\* after the first has succeeded.
C35_EarlierWitness ==
  /\ NodeReached /\ ~dry_run /\ DistinctIds(nodes)
  /\ idx = 2
  /\ Ancestors(order[2]) = {}
  /\ resolve_input([kind |-> "ref", nid |-> order[1], found |-> TRUE],
                   context_outputs) = "ok"

RetryableOutcome(o) ==
  \/ o.kind = "raise" /\ o.exc \in {"RetryableError", "Exception"}
  \/ o.kind = "return" /\ policy.timeout_ms > 0 /\ o.over_ms

\* The handler of the node last attempted failed retryably on attempts 1..k,
\* k < maxAttempts, and returned a mapping on attempt k + 1.
RetriedThenMapping ==
  /\ ~dry_run
  /\ outcomes # <<>>
  /\ Len(outcomes) <= policy.max_attempts
  /\ \A k \in 1..(Len(outcomes) - 1) : RetryableOutcome(outcomes[k])
  /\ Last(outcomes).kind = "return"
  /\ Last(outcomes).value \in Mappings

\* The node records of the journal that name nid.
RecordsOf(nid) ==
  SelectSeq(metrics, LAMBDA r : r.type = "node_result" /\ r.node = nid)

\* Node nid succeeded with output v and the run went on behind it.
SucceededWith(nid, v) ==
  /\ pc \in {"node", "invoke", "sleep", "exit"}
  /\ idx = Pos(order, nid) + 1
  /\ nid \in DOMAIN context_outputs
  /\ context_outputs[nid] = v
  /\ RecordsOf(nid) = <<[type |-> "node_result", node |-> nid, ok |-> TRUE]>>
  /\ \A k \in 1..Len(stdout) :
       (Len(stdout[k]) = 3 /\ stdout[k][1] = "NODE_FAILED") => stdout[k][2] # nid

\* C37 as stated: whenever the handler failed retryably on attempts 1..k,
\* k < maxAttempts, and returned a mapping on attempt k + 1, the node has
\* succeeded with that mapping, with one ok:true record and no ok:false
\* record, and the run is at the next node.
C37_MappingAfterRetriesSucceeds ==
  RetriedThenMapping =>
    SucceededWith(Last(outcomes).node, Last(outcomes).value)

\* C37, amended: the same when the mapping of attempt k + 1 was returned
\* within timeoutMs (or timeoutMs is 0).
C37_TimelyMappingAfterRetriesSucceeds ==
  (RetriedThenMapping /\ ~(policy.timeout_ms > 0 /\ Last(outcomes).over)) =>
    SucceededWith(Last(outcomes).node, Last(outcomes).value)

\* A handler raised a retryable error, was invoked again after one sleep and
\* returned a mapping: the driver is at the next node.
C37_Witness ==
  /\ RetriedThenMapping
  /\ Len(outcomes) = 2
  /\ outcomes[1].kind = "raise" /\ outcomes[1].exc = "RetryableError"
  /\ Len(sleeps) = 1
  /\ pc = "node"
  /\ idx <= Len(order)
  /\ SucceededWith(Last(outcomes).node, Last(outcomes).value)

\* The run is over: the process has exited with one of the four exit codes,
\* and with 0 only with OK as the last line printed.
Terminal ==
  /\ pc = "exit"
  /\ exit_code \in {0, 2, 3, 4}
  /\ exit_code = 0 => (stdout # <<>> /\ Last(stdout) = <<"OK">>)

FirstIrPos(nid) ==
  CHOOSE k \in 1..Len(nodes) :
    nodes[k].id = nid /\ \A j \in 1..(k - 1) : nodes[j].id # nid

\* The sequence s holds no value twice.
NoDuplicates(s) == \A j, k \in 1..Len(s) : j # k => s[j] # s[k]

\* C39: for every node list (ids repeated, dependsOn entries repeated or
\* naming no node included), the order and the cycle list returned by
\* _topo_order are disjoint, hold no id twice, together hold exactly the
\* node ids, and the cycle list (which the 'cycle detected' line joins as it
\* is) has its ids in the order of their first appearance in the IR.
C39_OrderAndCyclesPartitionIds ==
  Sorted =>
    /\ Range(order) \cap Range(cycles) = {}
    /\ NoDuplicates(order)
    /\ NoDuplicates(cycles)
    /\ Range(order) \cup Range(cycles) = NodeIds(nodes)
    /\ \A j, k \in 1..Len(cycles) :
         j < k => FirstIrPos(cycles[j]) < FirstIrPos(cycles[k])
    /\ cycles # <<>> =>
         /\ pc = "exit" /\ exit_code = 3
         /\ stdout = << <<"NODE_FAILED", "cycle detected">> >>

\* Two cycle ids with an emitted id between them in the IR.
C39_Witness ==
  /\ Sorted
  /\ Len(nodes) = 3
  /\ Len(order) = 1 /\ Len(cycles) = 2
  /\ nodes[1].id = cycles[1]
  /\ nodes[2].id = order[1]
  /\ nodes[3].id = cycles[2]

\* The nodes before the one the driver is at have been executed: the handler
\* of each was invoked and the journal holds their ok:true records, in order.
EarlierExecuted ==
  /\ Passed \subseteq invoked
  /\ Passed \subseteq DOMAIN context_outputs
  /\ metrics = OkRecords(SubSeq(order, 1, idx - 1))

\* C40 as stated: whenever a run is ended at the k-th node of the order by
\* the actionRef type check, the handler lookup or the quarantine check, the
\* exit code is 3 or 4 and the k-1 earlier nodes have been executed and have
\* their ok:true records in the journal.
C40_ChecksDuringThePass ==
  LookupAbort =>
    /\ exit_code \in {3, 4}
    /\ Last(stdout)[2] = order[idx]
    /\ EarlierExecuted

\* C40, amended: the same in runs without --dry-run; with --dry-run the
\* checks are made at the same point of the pass, after the k-1 earlier
\* nodes were given their placeholder, none of them executed or recorded.
C40_ChecksDuringThePassUnlessDryRun ==
  LookupAbort =>
    /\ exit_code \in {3, 4}
    /\ Last(stdout)[2] = order[idx]
    /\ order[idx] \notin invoked
    /\ IF dry_run
       THEN /\ invoked = {} /\ metrics = <<>>
            /\ Passed \subseteq DOMAIN context_outputs
       ELSE EarlierExecuted

\* The third node of the order had an actionRef that is not a string, after
\* the first two were executed.
C40_Witness ==
  /\ LookupAbort
  /\ ~dry_run
  /\ idx = 3
  /\ Last(stdout)[3] = "invalid actionRef"
  /\ exit_code = 3
  /\ Cardinality(invoked) = 2
  /\ Len(metrics) = 2

====
